---- MODULE Spec2Model ----
(***************************************************************************)
(* Model of the download scheduling and retry-orchestration subsystem of   *)
(* the video download service:                                             *)
(*   - DownloadScheduler over the download_queue table                     *)
(*       (app/utils/download_scheduler.py, app/database/auth.py),          *)
(*   - the interactive download route (app/main.py),                       *)
(*   - the in-memory DownloadQueue (app/utils/download_queue.py),          *)
(*   - BaseDownloader.verify_and_retry_download, wait_for_file_write,      *)
(*     _ensure_quicktime_compat (app/downloaders/base.py) and the file     *)
(*     location code of TikTokDownloader.download.                         *)
(***************************************************************************)
EXTENDS Naturals, Integers, Sequences, FiniteSets, TLC

(***************************************************************************)
(* Bounds of the model.                                                    *)
(***************************************************************************)
\* rows ever inserted into the download_queue table
MaxJobs == 3
\* ticks of the one-second clock behind func.now() / datetime.utcnow()
MaxClock == 1
\* largest argument given to set_concurrent_limit before the scheduler starts
MaxLimit == 2
\* interactive /api/video/download requests in flight at once
MaxInteractive == 1
\* tasks ever added to the in-memory DownloadQueue
MaxTasks == 3
\* largest max_retries given to verify_and_retry_download
MaxRetries == 2
\* iterations of the polling loop of wait_for_file_write that fit in max_wait
MaxPolls == 5

\* max_concurrent_downloads = 3 of DownloadScheduler.__init__ and
\* max_concurrent = 3 of DownloadQueue.__init__
DefaultMaxConcurrent == 3

\* the users of the service, and the ones that submit jobs in the runs explored
Users == {"alice", "bob"}
Submitters == {"alice"}
Priorities == {1, 3, 5}
\* schedule_download(..., priority: int = 0)
DefaultPriority == 0

\* NULL of a DateTime column
NoTime == -1
\* NULL of the error_message column
NoError == "NULL"

VARIABLES
    \* ---- DownloadScheduler and the download_queue table ----
    rows,                      \* download_queue table: row id = index
    tasks,                     \* asyncio task of _process_download per row id
    current_downloads,         \* keys of DownloadScheduler.current_downloads
    is_running,                \* DownloadScheduler.is_running
    max_concurrent_downloads,  \* DownloadScheduler.max_concurrent_downloads
    now,                       \* the clock read by func.now() and utcnow()
    cancel_result,             \* TRUE iff the last cancel_download returned True
    interactive                \* download_video requests awaiting downloader.download

schedVars == <<rows, tasks, current_downloads, is_running,
               max_concurrent_downloads, now, cancel_result, interactive>>

\* ---- DownloadQueue (in memory) ----
VARIABLES
    dtasks,             \* the DownloadTask objects, task id = index
    queue,              \* DownloadQueue.queue: task ids, head first
    active,             \* keys of DownloadQueue.active
    completed,          \* keys of DownloadQueue.completed
    processing,         \* DownloadQueue.processing
    queue_event,        \* DownloadQueue._queue_event is set
    max_concurrent,     \* DownloadQueue.max_concurrent
    processors_created, \* _process_queue tasks created and not yet run
    processor,          \* where the running _process_queue is suspended
    cancel_task_result  \* TRUE iff the last cancel_task returned True

queueVars == <<dtasks, queue, active, completed, processing, queue_event,
               max_concurrent, processors_created, processor,
               cancel_task_result>>

\* ---- one download: verify_and_retry_download / TikTokDownloader.download ----
VARIABLES
    adapter,        \* "base": verify_and_retry_download, "tiktok": TikTokDownloader.download
    max_retries,    \* argument of verify_and_retry_download
    attempt,        \* loop variable of "for attempt in range(max_retries)"
    fetch_calls,    \* calls of ydl.download made so far
    pc,             \* where the download coroutine stands
    fs,             \* the files named after the current stem: size, or Absent
    candidates,     \* paths of the glob not yet looked at
    current,        \* the path under wait_for_file_write, then downloaded_file
    last_size,      \* wait_for_file_write: last_size
    stable_count,   \* wait_for_file_write: stable_count
    polls,          \* wait_for_file_write: loop iterations done (0.5 s each)
    samples,        \* the last sizes wait_for_file_write read, oldest first
    wait_verdict,   \* what the last wait_for_file_write returned
    passed,         \* the paths wait_for_file_write returned True for
    rejected,       \* candidates found too small in this attempt
    result          \* the path returned

fetchVars == <<adapter, max_retries, attempt, fetch_calls, pc, fs, candidates,
               current, last_size, stable_count, polls, samples, wait_verdict,
               passed, rejected, result>>

\* ---- one call of a dl_platform adapter's download(url, format_id, start_time, end_time) ----
VARIABLES
    dl_platform,    \* the adapter: "twitter" or "facebook"
    start_time,     \* the trim range as given: << >> for None, <<t>> for a number
    end_time,
    config,         \* index in download_configs of the config the loop is at
    dl_pc,          \* where download() stands
    engine_calls,   \* calls of the extraction engine (ydl.download) so far
    trim_errors,    \* ValueErrors trim_video has raised for the range so far
    next_stem,      \* names tempfile has handed out so far
    output_stem,    \* stem of output_path
    stems,          \* the output stem of every engine call, in order
    trim_failures,  \* times the trim step has raised, for any reason
    dl_result,      \* what download() returned: "none", "full" or "trimmed"
    config_count,   \* length of the list of configs of this call
    attempted,      \* the configs whose engine call was made, in order
    failed_configs  \* the configs whose pass through the loop has failed

adapterVars == <<dl_platform, start_time, end_time, config, dl_pc, engine_calls,
                 trim_errors, next_stem, output_stem, stems, trim_failures,
                 dl_result, config_count, attempted, failed_configs>>

\* ---- YouTubeDownloader: the cookie file and the list of yt-dlp configs ----
VARIABLES
    cookie_files,   \* the candidate cookie files as they are on disk
    for_info,       \* argument for_info of _get_ydl_configs
    cookie_path,    \* what _locate_cookie_file returned
    configs,        \* what _get_ydl_configs returned
    cfg_pc          \* "start", "located" or "built"

configVars == <<cookie_files, for_info, cookie_path, configs, cfg_pc>>

\* ---- the last call of _ensure_quicktime_compat ----
VARIABLES
    compat_step     \* the step that ended it: "none" before any call

compatVars == <<compat_step>>

\* ---- the event loop thread and the engine calls of the promoted jobs ----
VARIABLES
    request_platform,   \* platform of the request that becomes row q
    fetch_state         \* the engine call of row q: "none", "executor"
                        \* (in a worker thread), "inline" (on the event
                        \* loop thread) or "done"

loopVars == <<request_platform, fetch_state>>

\* ---- DownloadScheduler.stop ----
VARIABLES
    stop_pc     \* "none", "gather" (stop awaits asyncio.gather) or "returned"

stopVars == <<stop_pc>>

\* ---- asyncio.create_task(self._process_download(queue_item)) ----
VARIABLES
    task_count  \* per queue id: the _process_download tasks created for it

promoVars == <<task_count>>

\* ---- progress events of the interactive downloads (main.download_video) ----
VARIABLES
    progress_callback,  \* per platform: whose callback the shared downloader holds
    requests,           \* per user: the platform of the download in progress, or "idle"
    delivered           \* <<producer, receiver>> of the progress events emitted

progressVars == <<progress_callback, requests, delivered>>

\* ---- the coroutines DownloadScheduler.start creates ----
VARIABLES
    scheduler_loops,    \* _scheduler_loop coroutines created and not yet ended
    cleanup_tasks       \* _cleanup_task coroutines created and not yet ended

lifeVars == <<scheduler_loops, cleanup_tasks>>

\* ---- pruning of the download_queue table ----
VARIABLES
    deleted,        \* ids of the rows cleanup_completed_queue has deleted
    last_cleanup    \* when _cleanup_task last called it, NoTime before

cleanupVars == <<deleted, last_cleanup>>

\* ---- the waits between the attempts of verify_and_retry_download ----
VARIABLES
    waits       \* the wait_time values slept so far, in seconds, oldest first

backoffVars == <<waits>>

vars == <<schedVars, queueVars, fetchVars, adapterVars, configVars, compatVars,
          loopVars, stopVars, promoVars, progressVars, lifeVars, cleanupVars,
          backoffVars>>

Min(a, b) == IF a < b THEN a ELSE b

(***************************************************************************)
(* The download_queue table.                                               *)
(***************************************************************************)
QueueIds == 1..Len(rows)

\* DownloadQueue(user_id, url, platform, format_id, priority) with the
\* column defaults: status "queued", created_at func.now()
NewQueueItem(username, priority) ==
    [user |-> username, priority |-> priority, status |-> "queued",
     created_at |-> now, started_at |-> NoTime, completed_at |-> NoTime,
     error_message |-> NoError]

\* DatabaseAuthManager.update_queue_status applied to row q of table t
UpdatedRow(r, status, error_message) ==
    LET r1 == [r EXCEPT !.status = status]
        r2 == IF status = "processing"
                THEN [r1 EXCEPT !.started_at = now]
                ELSE IF status \in {"completed", "failed"}
                       THEN [r1 EXCEPT !.completed_at = now]
                       ELSE r1
    IN  IF error_message # NoError
          THEN [r2 EXCEPT !.error_message = error_message]
          ELSE r2

update_queue_status(t, q, status, error_message) ==
    IF q \in 1..Len(t) /\ q \notin deleted
      THEN [t EXCEPT ![q] = UpdatedRow(t[q], status, error_message)]
      ELSE t

\* ORDER BY priority ASC, created_at ASC: the .desc() left out
OrderedBeforeAscending(a, b) ==
    \/ rows[a].priority < rows[b].priority
    \/ /\ rows[a].priority = rows[b].priority
       /\ rows[a].created_at < rows[b].created_at

\* ORDER BY priority DESC, created_at ASC: a comes strictly before b
OrderedBefore(a, b) ==
    \/ rows[a].priority > rows[b].priority
    \/ /\ rows[a].priority = rows[b].priority
       /\ rows[a].created_at < rows[b].created_at

QueuedOrFailed == {q \in QueueIds : rows[q].status \in {"queued", "failed"}}

\* filter(DownloadQueue.status == "queued")
Queued == {q \in QueueIds : rows[q].status = "queued"}

\* every order of the set S the ORDER BY clause allows: rows with equal
\* sort keys come in an order the database does not define
Orderings(S) ==
    {s \in [1..Cardinality(S) -> S] :
        /\ \A i, j \in 1..Cardinality(S) : i # j => s[i] # s[j]
        /\ \A i, j \in 1..Cardinality(S) : i < j => ~OrderedBefore(s[j], s[i])}

\* DownloadScheduler._get_next_downloads(limit): the possible result lists
get_next_downloads(limit) ==
    {SubSeq(s, 1, Min(limit, Len(s))) : s \in Orderings(Queued)}

Range(s) == {s[i] : i \in 1..Len(s)}

(***************************************************************************)
(* DownloadScheduler                                                       *)
(***************************************************************************)
\* DownloadScheduler.set_concurrent_limit: the value it stores
set_concurrent_limit(limit) ==
    IF limit < 1 THEN 1 ELSE IF limit > 10 THEN 10 ELSE limit

\* DownloadScheduler.__init__, then set_concurrent_limit called once before
\* the scheduler is started
SchedInit ==
    /\ rows = << >>
    /\ tasks = << >>
    /\ current_downloads = {}
    /\ is_running = FALSE
    /\ max_concurrent_downloads \in
          {DefaultMaxConcurrent} \cup {set_concurrent_limit(l) : l \in 0..MaxLimit}
    /\ now = 0
    /\ cancel_result = FALSE
    /\ interactive = 0

\* DownloadScheduler.start: the first call creates the control loop
start ==
    /\ ~is_running
    /\ is_running' = TRUE
    /\ scheduler_loops' = scheduler_loops + 1
    /\ cleanup_tasks' = cleanup_tasks + 1
    /\ UNCHANGED <<rows, tasks, current_downloads, max_concurrent_downloads,
                   now, cancel_result, interactive>>
    /\ UNCHANGED queueVars
    /\ UNCHANGED fetchVars
    /\ UNCHANGED adapterVars
    /\ UNCHANGED configVars
    /\ UNCHANGED compatVars
    /\ UNCHANGED loopVars
    /\ UNCHANGED stopVars
    /\ UNCHANGED promoVars
    /\ UNCHANGED progressVars
    /\ UNCHANGED cleanupVars
    /\ UNCHANGED backoffVars

\* a _scheduler_loop coroutine wakes from asyncio.sleep and finds
\* "while self.is_running" false: it ends
scheduler_loop_exit ==
    /\ scheduler_loops > 0
    /\ ~is_running
    /\ scheduler_loops' = scheduler_loops - 1
    /\ UNCHANGED cleanup_tasks
    /\ UNCHANGED schedVars
    /\ UNCHANGED queueVars
    /\ UNCHANGED fetchVars
    /\ UNCHANGED adapterVars
    /\ UNCHANGED configVars
    /\ UNCHANGED compatVars
    /\ UNCHANGED loopVars
    /\ UNCHANGED stopVars
    /\ UNCHANGED promoVars
    /\ UNCHANGED progressVars
    /\ UNCHANGED cleanupVars
    /\ UNCHANGED backoffVars

\* a _cleanup_task coroutine wakes from asyncio.sleep(3600) and finds
\* "while self.is_running" false: it ends
cleanup_task_exit ==
    /\ cleanup_tasks > 0
    /\ ~is_running
    /\ cleanup_tasks' = cleanup_tasks - 1
    /\ UNCHANGED scheduler_loops
    /\ UNCHANGED schedVars
    /\ UNCHANGED queueVars
    /\ UNCHANGED fetchVars
    /\ UNCHANGED adapterVars
    /\ UNCHANGED configVars
    /\ UNCHANGED compatVars
    /\ UNCHANGED loopVars
    /\ UNCHANGED stopVars
    /\ UNCHANGED promoVars
    /\ UNCHANGED progressVars
    /\ UNCHANGED cleanupVars
    /\ UNCHANGED backoffVars

\* one second passes on the clock
Tick ==
    /\ now < MaxClock
    /\ now' = now + 1
    /\ UNCHANGED <<rows, tasks, current_downloads, is_running,
                   max_concurrent_downloads, cancel_result, interactive>>
    /\ UNCHANGED queueVars
    /\ UNCHANGED fetchVars
    /\ UNCHANGED adapterVars
    /\ UNCHANGED configVars
    /\ UNCHANGED compatVars
    /\ UNCHANGED loopVars
    /\ UNCHANGED stopVars
    /\ UNCHANGED promoVars
    /\ UNCHANGED progressVars
    /\ UNCHANGED lifeVars
    /\ UNCHANGED cleanupVars
    /\ UNCHANGED backoffVars

\* DownloadScheduler.schedule_download -> add_to_download_queue
schedule_download(username, priority) ==
    /\ Len(rows) < MaxJobs
    /\ rows' = Append(rows, NewQueueItem(username, priority))
    /\ tasks' = Append(tasks, "none")
    /\ UNCHANGED <<current_downloads, is_running, max_concurrent_downloads,
                   now, cancel_result, interactive>>
    /\ UNCHANGED queueVars
    /\ UNCHANGED fetchVars
    /\ UNCHANGED adapterVars
    /\ UNCHANGED configVars
    /\ UNCHANGED compatVars
    /\ UNCHANGED loopVars
    /\ UNCHANGED stopVars
    /\ UNCHANGED promoVars
    /\ UNCHANGED progressVars
    /\ UNCHANGED lifeVars
    /\ UNCHANGED cleanupVars
    /\ UNCHANGED backoffVars

\* the slots counted without the downloads in flight
available_slots_ignoring_current == max_concurrent_downloads

\* available_slots of one _scheduler_loop iteration
available_slots == max_concurrent_downloads - Cardinality(current_downloads)

\* the status written without the transition out of "queued"
PromotedStatusQueued == "queued"

\* update_queue_status(queue_item.id, "processing"), written in the same
\* iteration that created the task
PromotedStatus == "processing"

\* the rows one iteration promotes
Promotions ==
    IF available_slots > 0 THEN get_next_downloads(available_slots) ELSE {<< >>}

\* _cleanup_completed_downloads: the keys it pops from cd, tasks being ts
completed_ids(cd, ts) == {q \in cd : ts[q] = "done"}

\* one iteration of _scheduler_loop, from the loop test to asyncio.sleep(5):
\* no await in it suspends (awaiting a finished task returns at once)
scheduler_loop ==
    /\ is_running
    /\ \E next_downloads \in Promotions :
         LET started == Range(next_downloads)
             ts == [q \in QueueIds |-> IF q \in started THEN "running" ELSE tasks[q]]
             cd == current_downloads \cup started
         IN  /\ tasks' = ts
             /\ rows' = [q \in QueueIds |->
                           IF q \in started
                             THEN UpdatedRow(rows[q], PromotedStatus, NoError)
                             ELSE rows[q]]
             /\ current_downloads' = cd \ completed_ids(cd, ts)
             /\ task_count' = [q \in 1..MaxJobs |->
                                 IF q \in started THEN task_count[q] + 1
                                                  ELSE task_count[q]]
    /\ UNCHANGED <<is_running, max_concurrent_downloads, now, cancel_result,
                   interactive>>
    /\ UNCHANGED queueVars
    /\ UNCHANGED fetchVars
    /\ UNCHANGED adapterVars
    /\ UNCHANGED configVars
    /\ UNCHANGED compatVars
    /\ UNCHANGED loopVars
    /\ UNCHANGED stopVars
    /\ UNCHANGED progressVars
    /\ UNCHANGED lifeVars
    /\ UNCHANGED cleanupVars
    /\ UNCHANGED backoffVars

\* _process_download: downloader.download returned a path
process_download_ok(q) ==
    /\ q \in QueueIds
    /\ tasks[q] = "running"
    /\ rows' = update_queue_status(rows, q, "completed", NoError)
    /\ tasks' = [tasks EXCEPT ![q] = "done"]
    /\ UNCHANGED <<current_downloads, is_running, max_concurrent_downloads,
                   now, cancel_result, interactive>>
    /\ UNCHANGED queueVars
    /\ UNCHANGED fetchVars
    /\ UNCHANGED adapterVars
    /\ UNCHANGED configVars
    /\ UNCHANGED compatVars
    /\ UNCHANGED loopVars
    /\ UNCHANGED stopVars
    /\ UNCHANGED promoVars
    /\ UNCHANGED progressVars
    /\ UNCHANGED lifeVars
    /\ UNCHANGED cleanupVars
    /\ UNCHANGED backoffVars

\* _process_download: downloader.download raised
process_download_fail(q) ==
    /\ q \in QueueIds
    /\ tasks[q] = "running"
    /\ rows' = update_queue_status(rows, q, "failed", "error")
    /\ tasks' = [tasks EXCEPT ![q] = "done"]
    /\ UNCHANGED <<current_downloads, is_running, max_concurrent_downloads,
                   now, cancel_result, interactive>>
    /\ UNCHANGED queueVars
    /\ UNCHANGED fetchVars
    /\ UNCHANGED adapterVars
    /\ UNCHANGED configVars
    /\ UNCHANGED compatVars
    /\ UNCHANGED loopVars
    /\ UNCHANGED stopVars
    /\ UNCHANGED promoVars
    /\ UNCHANGED progressVars
    /\ UNCHANGED lifeVars
    /\ UNCHANGED cleanupVars
    /\ UNCHANGED backoffVars

IsOwnerAlways(owner, user) == TRUE

\* "queue_item.user.username != username" in cancel_download and
\* "task.user_id == user_id" in cancel_task: the caller is the job's owner
IsOwner(owner, user) == owner = user

\* task.cancel() on a task that is not done: CancelledError is thrown at the
\* await the task is suspended in.  It ends the task, unless the await sits
\* in a try with a bare except (wait_for_file_write), which swallows it: the
\* download then goes on.
CancelOutcomes(t) == IF t = "running" THEN {"cancelled", "running"} ELSE {t}

\* DownloadScheduler.cancel_download(queue_id, username)
cancel_download(q, username) ==
    /\ IF q \notin QueueIds
         THEN /\ cancel_result' = FALSE
              /\ UNCHANGED <<rows, tasks, current_downloads>>
         ELSE IF ~IsOwner(rows[q].user, username)
           THEN /\ cancel_result' = FALSE
                /\ UNCHANGED <<rows, tasks, current_downloads>>
           ELSE /\ IF rows[q].status = "processing" /\ q \in current_downloads
                     THEN /\ \E t \in CancelOutcomes(tasks[q]) :
                                tasks' = [tasks EXCEPT ![q] = t]
                          /\ current_downloads' = current_downloads \ {q}
                     ELSE UNCHANGED <<tasks, current_downloads>>
                /\ rows' = update_queue_status(rows, q, "failed", "Cancelled by user")
                /\ cancel_result' = TRUE
    /\ UNCHANGED <<is_running, max_concurrent_downloads, now, interactive>>
    /\ UNCHANGED queueVars
    /\ UNCHANGED fetchVars
    /\ UNCHANGED adapterVars
    /\ UNCHANGED configVars
    /\ UNCHANGED compatVars
    /\ UNCHANGED loopVars
    /\ UNCHANGED stopVars
    /\ UNCHANGED promoVars
    /\ UNCHANGED progressVars
    /\ UNCHANGED lifeVars
    /\ UNCHANGED cleanupVars
    /\ UNCHANGED backoffVars

\* days_old = 7 of _cleanup_task; the clock counts days in the runs that
\* prune
DaysOld == 7

\* DownloadQueue.completed_at <= cutoff_date
BeforeCutoffInclusive(completed_at, cutoff_date) ==
    completed_at # NoTime /\ completed_at <= cutoff_date

\* DownloadQueue.completed_at < cutoff_date: NULL compares as unknown and
\* the row is not selected
BeforeCutoff(completed_at, cutoff_date) ==
    completed_at # NoTime /\ completed_at < cutoff_date

\* DatabaseAuthManager.cleanup_completed_queue(days_old): the ids its
\* DELETE removes
cleanup_completed_queue(days_old) ==
    LET cutoff_date == now - days_old
    IN  {q \in QueueIds \ deleted :
            /\ rows[q].status \in {"completed", "failed"}
            /\ BeforeCutoff(rows[q].completed_at, cutoff_date)}

\* one iteration of _cleanup_task, up to asyncio.sleep(3600)
cleanup_task ==
    /\ is_running
    /\ cleanup_tasks > 0
    /\ deleted' = deleted \cup cleanup_completed_queue(DaysOld)
    /\ last_cleanup' = now
    /\ UNCHANGED schedVars
    /\ UNCHANGED queueVars
    /\ UNCHANGED fetchVars
    /\ UNCHANGED adapterVars
    /\ UNCHANGED configVars
    /\ UNCHANGED compatVars
    /\ UNCHANGED loopVars
    /\ UNCHANGED stopVars
    /\ UNCHANGED promoVars
    /\ UNCHANGED progressVars
    /\ UNCHANGED lifeVars
    /\ UNCHANGED backoffVars

\* DownloadScheduler.stop up to "await asyncio.gather": is_running is
\* cleared and every task of current_downloads that is not done is
\* cancelled.  CancelledError is not an Exception: it passes the "except
\* Exception" of _process_download, which then writes no status.
stop ==
    /\ is_running
    /\ stop_pc = "none"
    /\ is_running' = FALSE
    /\ tasks' \in {ts \in [QueueIds -> {"none", "running", "done", "cancelled"}] :
                    \A q \in QueueIds :
                        ts[q] \in (IF q \in current_downloads
                                     THEN CancelOutcomes(tasks[q])
                                     ELSE {tasks[q]})}
    /\ stop_pc' = IF current_downloads # {} THEN "gather" ELSE "returned"
    /\ UNCHANGED <<rows, current_downloads, max_concurrent_downloads, now,
                   cancel_result, interactive>>
    /\ UNCHANGED queueVars
    /\ UNCHANGED fetchVars
    /\ UNCHANGED adapterVars
    /\ UNCHANGED configVars
    /\ UNCHANGED compatVars
    /\ UNCHANGED loopVars
    /\ UNCHANGED promoVars
    /\ UNCHANGED progressVars
    /\ UNCHANGED lifeVars
    /\ UNCHANGED cleanupVars
    /\ UNCHANGED backoffVars

\* asyncio.gather(*current_downloads.values(), return_exceptions=True)
\* returns: every task it was given has ended
stop_returns ==
    /\ stop_pc = "gather"
    /\ \A q \in current_downloads : tasks[q] \in {"done", "cancelled"}
    /\ stop_pc' = "returned"
    /\ UNCHANGED schedVars
    /\ UNCHANGED queueVars
    /\ UNCHANGED fetchVars
    /\ UNCHANGED adapterVars
    /\ UNCHANGED configVars
    /\ UNCHANGED compatVars
    /\ UNCHANGED loopVars
    /\ UNCHANGED promoVars
    /\ UNCHANGED progressVars
    /\ UNCHANGED lifeVars
    /\ UNCHANGED cleanupVars
    /\ UNCHANGED backoffVars

(***************************************************************************)
(* Progress events.  main.py keeps one downloader object per platform for  *)
(* all requests; BaseDownloader holds one progress_callback.               *)
(***************************************************************************)
\* the platforms of the concurrent interactive downloads explored
ProgressPlatforms == {"youtube", "tiktok"}

\* "lambda data: logger.info(...)": the callback that reaches no user
LoggerCallback == "logger"

\* setup_progress_callbacks() at import, no request in flight
ProgressInit ==
    /\ progress_callback = [pf \in ProgressPlatforms |-> LoggerCallback]
    /\ requests = [u \in Users |-> "idle"]
    /\ delivered = {}

\* BaseDownloader.set_progress_callback on the downloader of platform pf
set_progress_callback(pf, callback) ==
    [progress_callback EXCEPT ![pf] = callback]

\* download_video of current_user up to "await downloader.download"
progress_request_begin(current_user, pf) ==
    /\ requests[current_user] = "idle"
    /\ requests' = [requests EXCEPT ![current_user] = pf]
    /\ progress_callback' = set_progress_callback(pf, current_user)
    /\ UNCHANGED delivered
    /\ UNCHANGED schedVars
    /\ UNCHANGED queueVars
    /\ UNCHANGED fetchVars
    /\ UNCHANGED adapterVars
    /\ UNCHANGED configVars
    /\ UNCHANGED compatVars
    /\ UNCHANGED loopVars
    /\ UNCHANGED stopVars
    /\ UNCHANGED promoVars
    /\ UNCHANGED lifeVars
    /\ UNCHANGED cleanupVars
    /\ UNCHANGED backoffVars

\* BaseDownloader.emit_progress during the download of current_user: the
\* event goes to the callback the downloader holds at that moment
emit_progress(current_user) ==
    /\ requests[current_user] # "idle"
    /\ delivered' = delivered \cup
                       {<<current_user, progress_callback[requests[current_user]]>>}
    /\ UNCHANGED <<progress_callback, requests>>
    /\ UNCHANGED schedVars
    /\ UNCHANGED queueVars
    /\ UNCHANGED fetchVars
    /\ UNCHANGED adapterVars
    /\ UNCHANGED configVars
    /\ UNCHANGED compatVars
    /\ UNCHANGED loopVars
    /\ UNCHANGED stopVars
    /\ UNCHANGED promoVars
    /\ UNCHANGED lifeVars
    /\ UNCHANGED cleanupVars
    /\ UNCHANGED backoffVars

\* downloader.download returned: "Reset callback"
progress_request_end(current_user) ==
    /\ requests[current_user] # "idle"
    /\ progress_callback' = set_progress_callback(requests[current_user], LoggerCallback)
    /\ requests' = [requests EXCEPT ![current_user] = "idle"]
    /\ UNCHANGED delivered
    /\ UNCHANGED schedVars
    /\ UNCHANGED queueVars
    /\ UNCHANGED fetchVars
    /\ UNCHANGED adapterVars
    /\ UNCHANGED configVars
    /\ UNCHANGED compatVars
    /\ UNCHANGED loopVars
    /\ UNCHANGED stopVars
    /\ UNCHANGED promoVars
    /\ UNCHANGED lifeVars
    /\ UNCHANGED cleanupVars
    /\ UNCHANGED backoffVars

\* downloader.download raised: the except branches leave the callback as it is
progress_request_failed(current_user) ==
    /\ requests[current_user] # "idle"
    /\ requests' = [requests EXCEPT ![current_user] = "idle"]
    /\ UNCHANGED <<progress_callback, delivered>>
    /\ UNCHANGED schedVars
    /\ UNCHANGED queueVars
    /\ UNCHANGED fetchVars
    /\ UNCHANGED adapterVars
    /\ UNCHANGED configVars
    /\ UNCHANGED compatVars
    /\ UNCHANGED loopVars
    /\ UNCHANGED stopVars
    /\ UNCHANGED promoVars
    /\ UNCHANGED lifeVars
    /\ UNCHANGED cleanupVars
    /\ UNCHANGED backoffVars

(***************************************************************************)
(* main.download_video: the interactive download                           *)
(***************************************************************************)
\* the route reaches "await downloader.download(...)"
download_video_begin ==
    /\ interactive < MaxInteractive
    /\ interactive' = interactive + 1
    /\ UNCHANGED <<rows, tasks, current_downloads, is_running,
                   max_concurrent_downloads, now, cancel_result>>
    /\ UNCHANGED queueVars
    /\ UNCHANGED fetchVars
    /\ UNCHANGED adapterVars
    /\ UNCHANGED configVars
    /\ UNCHANGED compatVars
    /\ UNCHANGED loopVars
    /\ UNCHANGED stopVars
    /\ UNCHANGED promoVars
    /\ UNCHANGED progressVars
    /\ UNCHANGED lifeVars
    /\ UNCHANGED cleanupVars
    /\ UNCHANGED backoffVars

\* downloader.download returns or raises
download_video_end ==
    /\ interactive > 0
    /\ interactive' = interactive - 1
    /\ UNCHANGED <<rows, tasks, current_downloads, is_running,
                   max_concurrent_downloads, now, cancel_result>>
    /\ UNCHANGED queueVars
    /\ UNCHANGED fetchVars
    /\ UNCHANGED adapterVars
    /\ UNCHANGED configVars
    /\ UNCHANGED compatVars
    /\ UNCHANGED loopVars
    /\ UNCHANGED stopVars
    /\ UNCHANGED promoVars
    /\ UNCHANGED progressVars
    /\ UNCHANGED lifeVars
    /\ UNCHANGED cleanupVars
    /\ UNCHANGED backoffVars

(***************************************************************************)
(* DownloadQueue: the in-memory queue of app/utils/download_queue.py       *)
(***************************************************************************)
\* keys of the downloaders dict of _execute_task, and the platforms given to
\* add_download in the runs explored
SupportedPlatforms == {"youtube", "tiktok", "facebook", "twitter"}
Platforms == {"youtube", "vimeo"}

\* "Keep only last 100 completed tasks"
HistoryLimit == 100

TaskIds == 1..Len(dtasks)
Finished == {"completed", "failed", "cancelled"}

\* DownloadTask(...) as add_download builds it.  terminal_events counts the
\* calls of task.progress_callback that carried a finished status; run is
\* the position of the task's _execute_task coroutine.
\* DownloadTask.file_size: Optional[int] = None
NoSize == -1

\* what file_path.stat().st_size gives for the path downloader.download
\* returned: the stat fails (NoSize, no such file), or the file has at most
\* or more than 1024 bytes
ReturnedSizes == {NoSize, 1024, 1025}

NewDownloadTask(user_id, platform, callback) ==
    [user_id |-> user_id, platform |-> platform, callback |-> callback,
     status |-> "pending", error |-> "None", file_path |-> "None",
     file_size |-> NoSize, terminal_events |-> 0, run |-> "none",
     executions |-> 0]

\* DownloadQueue.__init__(max_concurrent)
QueueInit(limits) ==
    /\ dtasks = << >>
    /\ queue = << >>
    /\ active = {}
    /\ completed = {}
    /\ processing = FALSE
    /\ queue_event = FALSE
    /\ max_concurrent \in limits
    /\ processors_created = 0
    /\ processor = "none"
    /\ cancel_task_result = FALSE

\* DownloadQueue.add_download
add_download(user_id, platform, callback) ==
    /\ dtasks' = Append(dtasks, NewDownloadTask(user_id, platform, callback))
    /\ queue' = Append(queue, Len(dtasks) + 1)
    /\ processors_created' =
          IF ~processing THEN processors_created + 1 ELSE processors_created
    /\ UNCHANGED <<active, completed, processing, queue_event, max_concurrent,
                   processor, cancel_task_result>>
    /\ UNCHANGED schedVars
    /\ UNCHANGED fetchVars
    /\ UNCHANGED adapterVars
    /\ UNCHANGED configVars
    /\ UNCHANGED compatVars
    /\ UNCHANGED loopVars
    /\ UNCHANGED stopVars
    /\ UNCHANGED promoVars
    /\ UNCHANGED progressVars
    /\ UNCHANGED lifeVars
    /\ UNCHANGED cleanupVars
    /\ UNCHANGED backoffVars

\* a search for the task that does not stop at the queue
InQueueOrElsewhere(task_id) == task_id \in TaskIds

\* "for i, task in enumerate(self.queue): if task.id == task_id"
InQueue(task_id) == \E i \in 1..Len(queue) : queue[i] = task_id

\* DownloadQueue.cancel_task(task_id, user_id)
cancel_task(task_id, user_id) ==
    /\ IF /\ InQueue(task_id)
          /\ task_id \in TaskIds
          /\ IsOwner(dtasks[task_id].user_id, user_id)
         THEN /\ dtasks' = [dtasks EXCEPT ![task_id].status = "cancelled"]
              /\ queue' = SelectSeq(queue, LAMBDA t : t # task_id)
              /\ completed' = completed \cup {task_id}
              /\ cancel_task_result' = TRUE
         ELSE /\ cancel_task_result' = FALSE
              /\ UNCHANGED <<dtasks, queue, completed>>
    /\ UNCHANGED <<active, processing, queue_event, max_concurrent,
                   processors_created, processor>>
    /\ UNCHANGED schedVars
    /\ UNCHANGED fetchVars
    /\ UNCHANGED adapterVars
    /\ UNCHANGED configVars
    /\ UNCHANGED compatVars
    /\ UNCHANGED loopVars
    /\ UNCHANGED stopVars
    /\ UNCHANGED promoVars
    /\ UNCHANGED progressVars
    /\ UNCHANGED lifeVars
    /\ UNCHANGED cleanupVars
    /\ UNCHANGED backoffVars

\* the pops of the inner while loop without its test of len(self.active)
PromoteCountUnlimited ==
    LET Ok(k) == /\ k <= Len(queue)
                 /\ \A i \in 1..k : dtasks[queue[i]].status = "pending"
    IN  CHOOSE k \in 0..Len(queue) : Ok(k) /\ \A m \in 0..Len(queue) : Ok(m) => m <= k

\* the tasks the inner while loop of _process_queue pops from the queue
PromoteCount ==
    LET Ok(k) == /\ k <= Len(queue)
                 /\ Cardinality(active) + k <= max_concurrent
                 /\ \A i \in 1..k : dtasks[queue[i]].status = "pending"
    IN  CHOOSE k \in 0..Len(queue) : Ok(k) /\ \A m \in 0..Len(queue) : Ok(m) => m <= k

OldestCompleted(c) == CHOOSE t \in c : \A u \in c : t <= u

\* the completed dict after the finished tasks fin were moved into c, one by
\* one in the order of the active dict, each followed by the pruning
RECURSIVE Reaped(_, _)
Reaped(c, fin) ==
    IF fin = {} THEN c
    ELSE LET t == CHOOSE x \in fin : \A y \in fin : x <= y
             c1 == c \cup {t}
             c2 == IF Cardinality(c1) > HistoryLimit
                     THEN c1 \ {OldestCompleted(c1)} ELSE c1
         IN  Reaped(c2, fin \ {t})

\* the queue read with queue[0] where the code pops
RemainingUnpopped(k) == queue

\* the queue after k times "task = self.queue.pop(0)"
Remaining(k) == SubSeq(queue, k + 1, Len(queue))

\* _process_queue from "Start new tasks" to asyncio.sleep(1)
StartAndReap ==
    LET k == PromoteCount
        promoted == {queue[i] : i \in 1..k}
        act == active \cup promoted
        fin == {t \in act : dtasks[t].status \in Finished}
    IN  /\ queue' = Remaining(k)
        /\ dtasks' = [t \in TaskIds |->
                        IF t \in promoted
                          THEN [dtasks[t] EXCEPT !.run = "created",
                                                 !.executions = @ + 1]
                          ELSE dtasks[t]]
        /\ active' = act \ fin
        /\ completed' = Reaped(completed, fin)
        /\ processor' = "sleeping"

\* _process_queue from the top of "while True" to its next await
LoopIteration ==
    IF queue = << >> /\ active = {}
      THEN /\ queue_event' = FALSE
           /\ processor' = "waiting"
           /\ UNCHANGED <<dtasks, queue, active, completed>>
      ELSE /\ StartAndReap
           /\ UNCHANGED queue_event

\* a _process_queue task created by add_download starts to run
process_queue_start ==
    /\ processors_created > 0
    /\ processors_created' = processors_created - 1
    /\ IF processing
         THEN UNCHANGED <<dtasks, queue, active, completed, processing,
                          queue_event, processor>>
         ELSE /\ processing' = TRUE
              /\ LoopIteration
    /\ UNCHANGED <<max_concurrent, cancel_task_result>>
    /\ UNCHANGED schedVars
    /\ UNCHANGED fetchVars
    /\ UNCHANGED adapterVars
    /\ UNCHANGED configVars
    /\ UNCHANGED compatVars
    /\ UNCHANGED loopVars
    /\ UNCHANGED stopVars
    /\ UNCHANGED promoVars
    /\ UNCHANGED progressVars
    /\ UNCHANGED lifeVars
    /\ UNCHANGED cleanupVars
    /\ UNCHANGED backoffVars

\* the suspended _process_queue resumes: _queue_event.wait() returns once
\* the event is set, asyncio.sleep(1) returns and the loop goes round
process_queue_resume ==
    /\ processor \in {"waiting", "sleeping"}
    /\ IF processor = "waiting"
         THEN /\ queue_event
              /\ StartAndReap
              /\ UNCHANGED queue_event
         ELSE LoopIteration
    /\ UNCHANGED <<processing, max_concurrent, processors_created,
                   cancel_task_result>>
    /\ UNCHANGED schedVars
    /\ UNCHANGED fetchVars
    /\ UNCHANGED adapterVars
    /\ UNCHANGED configVars
    /\ UNCHANGED compatVars
    /\ UNCHANGED loopVars
    /\ UNCHANGED stopVars
    /\ UNCHANGED promoVars
    /\ UNCHANGED progressVars
    /\ UNCHANGED lifeVars
    /\ UNCHANGED cleanupVars
    /\ UNCHANGED backoffVars

FinalCallbackDropped(d) == d.terminal_events

\* the finally block of _execute_task: the terminal events the observer of
\* the task has received after "if task.progress_callback: ..."
FinalCallback(d) ==
    IF d.callback THEN d.terminal_events + 1 ELSE d.terminal_events

\* the except branch and the finally block of _execute_task
TaskFailed(d) ==
    [d EXCEPT !.status = "failed", !.error = "error", !.run = "done",
              !.terminal_events = FinalCallback(d)]

TaskCompletedPathless(d, size) ==
    [d EXCEPT !.status = "completed", !.run = "done", !.file_size = size,
              !.terminal_events = FinalCallback(d)]

\* the success path and the finally block of _execute_task
TaskCompleted(d, size) ==
    [d EXCEPT !.status = "completed", !.file_path = "path", !.run = "done",
              !.file_size = size,
              !.terminal_events = FinalCallback(d)]

\* _execute_task runs up to "await downloader.get_video_info"
execute_task_begin(t) ==
    /\ t \in TaskIds
    /\ dtasks[t].run = "created"
    /\ IF dtasks[t].platform \in SupportedPlatforms
         THEN /\ dtasks' = [dtasks EXCEPT ![t].status = "preparing", ![t].run = "info"]
              /\ UNCHANGED queue_event
         ELSE /\ dtasks' = [dtasks EXCEPT ![t] = TaskFailed(@)]
              /\ queue_event' = TRUE
    /\ UNCHANGED <<queue, active, completed, processing, max_concurrent,
                   processors_created, processor, cancel_task_result>>
    /\ UNCHANGED schedVars
    /\ UNCHANGED fetchVars
    /\ UNCHANGED adapterVars
    /\ UNCHANGED configVars
    /\ UNCHANGED compatVars
    /\ UNCHANGED loopVars
    /\ UNCHANGED stopVars
    /\ UNCHANGED promoVars
    /\ UNCHANGED progressVars
    /\ UNCHANGED lifeVars
    /\ UNCHANGED cleanupVars
    /\ UNCHANGED backoffVars

\* get_video_info returned: _execute_task runs up to "await downloader.download"
execute_task_info(t) ==
    /\ t \in TaskIds
    /\ dtasks[t].run = "info"
    /\ dtasks' = [dtasks EXCEPT ![t].status = "downloading", ![t].run = "download"]
    /\ UNCHANGED <<queue, active, completed, processing, queue_event,
                   max_concurrent, processors_created, processor,
                   cancel_task_result>>
    /\ UNCHANGED schedVars
    /\ UNCHANGED fetchVars
    /\ UNCHANGED adapterVars
    /\ UNCHANGED configVars
    /\ UNCHANGED compatVars
    /\ UNCHANGED loopVars
    /\ UNCHANGED stopVars
    /\ UNCHANGED promoVars
    /\ UNCHANGED progressVars
    /\ UNCHANGED lifeVars
    /\ UNCHANGED cleanupVars
    /\ UNCHANGED backoffVars

\* downloader.download returned a path
execute_task_done(t) ==
    /\ t \in TaskIds
    /\ dtasks[t].run = "download"
    /\ \E size \in ReturnedSizes : dtasks' = [dtasks EXCEPT ![t] = TaskCompleted(@, size)]
    /\ queue_event' = TRUE
    /\ UNCHANGED <<queue, active, completed, processing, max_concurrent,
                   processors_created, processor, cancel_task_result>>
    /\ UNCHANGED schedVars
    /\ UNCHANGED fetchVars
    /\ UNCHANGED adapterVars
    /\ UNCHANGED configVars
    /\ UNCHANGED compatVars
    /\ UNCHANGED loopVars
    /\ UNCHANGED stopVars
    /\ UNCHANGED promoVars
    /\ UNCHANGED progressVars
    /\ UNCHANGED lifeVars
    /\ UNCHANGED cleanupVars
    /\ UNCHANGED backoffVars

\* get_video_info or download raised
execute_task_fail(t) ==
    /\ t \in TaskIds
    /\ dtasks[t].run \in {"info", "download"}
    /\ dtasks' = [dtasks EXCEPT ![t] = TaskFailed(@)]
    /\ queue_event' = TRUE
    /\ UNCHANGED <<queue, active, completed, processing, max_concurrent,
                   processors_created, processor, cancel_task_result>>
    /\ UNCHANGED schedVars
    /\ UNCHANGED fetchVars
    /\ UNCHANGED adapterVars
    /\ UNCHANGED configVars
    /\ UNCHANGED compatVars
    /\ UNCHANGED loopVars
    /\ UNCHANGED stopVars
    /\ UNCHANGED promoVars
    /\ UNCHANGED progressVars
    /\ UNCHANGED lifeVars
    /\ UNCHANGED cleanupVars
    /\ UNCHANGED backoffVars

(***************************************************************************)
(* One download: BaseDownloader.verify_and_retry_download with             *)
(* wait_for_file_write and _ensure_quicktime_compat, and the file location *)
(* code of TikTokDownloader.download (no trim range).                      *)
(*                                                                         *)
(* Files are named by what follows the stem of the attempt:                *)
(*   "mp4"  stem.mp4 (temp_path, and output_path of the TikTok adapter)    *)
(*   "webm" stem.webm        "part" stem.mp4.part                          *)
(*   "qt"   stem_qt.mp4      "orig" stem_orig.mp4                          *)
(***************************************************************************)
Names == {"mp4", "webm", "part", "qt", "orig"}
\* the names matched by glob(stem*) whose suffix is in the extension list
CandidateNames == {"mp4", "webm", "qt", "orig"}
\* the names the extraction engine writes (outtmpl stem.%(ext)s)
EngineNames == {"mp4", "webm", "part"}

\* "if file_size > 1024:  # At least 1KB"
MinBytes == 1024
\* "if stable_count >= 3"
StableWindow == 3
\* max_retries: int = 3
DefaultMaxRetries == 3

Absent == -1
Sizes == {0, MinBytes, MinBytes + 1, 2 * MinBytes}

Exists(f, n) == f[n] # Absent
Unlink(f, n) == [f EXCEPT ![n] = Absent]
NoFiles == [n \in Names |-> Absent]

\* what ydl.download can leave on disk, f being the files before the call:
\* the engine is opaque, it writes any of its names with any size
EngineOutputs(f) ==
    {g \in [Names -> {Absent} \cup Sizes] :
        /\ \A n \in Names \ EngineNames : g[n] = f[n]
        /\ \A n \in EngineNames : Exists(f, n) => Exists(g, n) /\ g[n] >= f[n]
        /\ g["part"] \in {Absent, MinBytes}}

FetchInit(adapters, retries) ==
    /\ adapter \in adapters
    /\ max_retries \in retries
    /\ attempt = 0
    /\ fetch_calls = 0
    /\ pc = "attempt"
    /\ fs = NoFiles
    /\ candidates = {}
    /\ current = "none"
    /\ last_size = 0
    /\ stable_count = 0
    /\ polls = 0
    /\ samples = << >>
    /\ wait_verdict = "none"
    /\ passed = {}
    /\ rejected = {}
    /\ result = "none"
    /\ compat_step = "none"

\* the files as the attempt finds them before ydl.download: the base code
\* deletes the NamedTemporaryFile placeholder, the TikTok adapter keeps the
\* empty file create_temp_file made
Placeholder ==
    IF adapter = "tiktok" THEN [NoFiles EXCEPT !["mp4"] = 0] ELSE NoFiles

InRangeInclusive(a) == a <= max_retries

\* for attempt in range(max_retries): the loop has an iteration a
InRange(a) == a < max_retries

\* a wait of the same length after every attempt
wait_time_flat(a) == 5

\* wait_time = (attempt + 1) * 5, attempt counting from 0
wait_time(a) == (a + 1) * 5

\* an attempt of verify_and_retry_download has failed: wait before the next
\* one unless this was the last, then on to the head of the loop
AttemptFailed ==
    /\ attempt' = attempt + 1
    /\ pc' = IF attempt < max_retries - 1 THEN "backoff" ELSE "attempt"
    /\ waits' = IF attempt < max_retries - 1
                  THEN Append(waits, wait_time(attempt))
                  ELSE waits

\* the loop is over with no file returned: "raise Exception(Failed to
\* download ... after max_retries attempts)"
exhausted ==
    /\ pc = "attempt"
    /\ adapter = "base"
    /\ ~InRange(attempt)
    /\ pc' = "raised"
    /\ UNCHANGED <<adapter, max_retries, attempt, fetch_calls, fs, candidates,
                   current, last_size, stable_count, polls, samples,
                   wait_verdict, passed, rejected, result>>
    /\ UNCHANGED schedVars
    /\ UNCHANGED queueVars
    /\ UNCHANGED adapterVars
    /\ UNCHANGED configVars
    /\ UNCHANGED compatVars
    /\ UNCHANGED loopVars
    /\ UNCHANGED stopVars
    /\ UNCHANGED promoVars
    /\ UNCHANGED progressVars
    /\ UNCHANGED lifeVars
    /\ UNCHANGED cleanupVars
    /\ UNCHANGED backoffVars

\* ydl.download returns: on to asyncio.sleep(2) (base)
fetch_returns ==
    /\ pc = "attempt"
    /\ adapter = "base" => InRange(attempt)
    /\ \E g \in EngineOutputs(Placeholder) : fs' = g
    /\ fetch_calls' = fetch_calls + 1
    /\ pc' = "settle"
    /\ rejected' = {}
    /\ passed' = {}
    /\ wait_verdict' = "none"
    /\ UNCHANGED <<adapter, max_retries, attempt, candidates, current,
                   last_size, stable_count, polls, samples, result>>
    /\ UNCHANGED schedVars
    /\ UNCHANGED queueVars
    /\ UNCHANGED adapterVars
    /\ UNCHANGED configVars
    /\ UNCHANGED compatVars
    /\ UNCHANGED loopVars
    /\ UNCHANGED stopVars
    /\ UNCHANGED promoVars
    /\ UNCHANGED progressVars
    /\ UNCHANGED lifeVars
    /\ UNCHANGED cleanupVars
    /\ UNCHANGED backoffVars

\* ydl.download raises.  base: the except branch removes temp_path (the
\* names it probes for the other extensions carry two dots, no file has
\* them) and goes to the backoff; tiktok: the exception propagates.
fetch_raises ==
    /\ pc = "attempt"
    /\ adapter = "base" => InRange(attempt)
    /\ fetch_calls' = fetch_calls + 1
    /\ \E g \in EngineOutputs(Placeholder) :
         IF adapter = "base"
           THEN /\ fs' = Unlink(g, "mp4")
                /\ AttemptFailed
           ELSE /\ fs' = g
                /\ pc' = "raised"
                /\ UNCHANGED <<attempt, waits>>
    /\ UNCHANGED <<adapter, max_retries, candidates, current, last_size,
                   stable_count, polls, samples, wait_verdict, passed,
                   rejected, result>>
    /\ UNCHANGED schedVars
    /\ UNCHANGED queueVars
    /\ UNCHANGED adapterVars
    /\ UNCHANGED configVars
    /\ UNCHANGED compatVars
    /\ UNCHANGED loopVars
    /\ UNCHANGED stopVars
    /\ UNCHANGED promoVars
    /\ UNCHANGED progressVars
    /\ UNCHANGED lifeVars
    /\ UNCHANGED cleanupVars

\* the wait before the next attempt is over
backoff_over ==
    /\ pc = "backoff"
    /\ pc' = "attempt"
    /\ UNCHANGED <<adapter, max_retries, attempt, fetch_calls, fs, candidates,
                   current, last_size, stable_count, polls, samples,
                   wait_verdict, passed, rejected, result>>
    /\ UNCHANGED schedVars
    /\ UNCHANGED queueVars
    /\ UNCHANGED adapterVars
    /\ UNCHANGED configVars
    /\ UNCHANGED compatVars
    /\ UNCHANGED loopVars
    /\ UNCHANGED stopVars
    /\ UNCHANGED promoVars
    /\ UNCHANGED progressVars
    /\ UNCHANGED lifeVars
    /\ UNCHANGED cleanupVars
    /\ UNCHANGED backoffVars

\* the external writer appends to a file it has written
grow ==
    /\ pc \in {"settle", "scan", "wait", "final"}
    /\ \E n \in {"mp4", "webm"}, s \in Sizes :
         /\ Exists(fs, n)
         /\ s > fs[n]
         /\ fs' = [fs EXCEPT ![n] = s]
    /\ UNCHANGED <<adapter, max_retries, attempt, fetch_calls, pc, candidates,
                   current, last_size, stable_count, polls, samples,
                   wait_verdict, passed, rejected, result>>
    /\ UNCHANGED schedVars
    /\ UNCHANGED queueVars
    /\ UNCHANGED adapterVars
    /\ UNCHANGED configVars
    /\ UNCHANGED compatVars
    /\ UNCHANGED loopVars
    /\ UNCHANGED stopVars
    /\ UNCHANGED promoVars
    /\ UNCHANGED progressVars
    /\ UNCHANGED lifeVars
    /\ UNCHANGED cleanupVars
    /\ UNCHANGED backoffVars

\* the loop over the extension list finds nothing (it probes stem..ext, with
\* two dots); glob(stem*) lists the directory
locate ==
    /\ pc = "settle"
    /\ candidates' = {n \in CandidateNames : Exists(fs, n)}
    /\ pc' = "scan"
    /\ UNCHANGED <<adapter, max_retries, attempt, fetch_calls, fs, current,
                   last_size, stable_count, polls, samples, wait_verdict,
                   passed, rejected, result>>
    /\ UNCHANGED schedVars
    /\ UNCHANGED queueVars
    /\ UNCHANGED adapterVars
    /\ UNCHANGED configVars
    /\ UNCHANGED compatVars
    /\ UNCHANGED loopVars
    /\ UNCHANGED stopVars
    /\ UNCHANGED promoVars
    /\ UNCHANGED progressVars
    /\ UNCHANGED lifeVars
    /\ UNCHANGED cleanupVars
    /\ UNCHANGED backoffVars

\* the glob loop takes its next path, in the order of the directory, and
\* enters wait_for_file_write
next_candidate ==
    /\ pc = "scan"
    /\ \E c \in candidates :
         /\ candidates' = candidates \ {c}
         /\ IF Exists(fs, c)
              THEN /\ current' = c
                   /\ last_size' = 0
                   /\ stable_count' = 0
                   /\ polls' = 0
                   /\ samples' = << >>
                   /\ wait_verdict' = "none"
                   /\ pc' = "wait"
              ELSE UNCHANGED <<current, last_size, stable_count, polls, samples,
                               wait_verdict, pc>>
    /\ UNCHANGED <<adapter, max_retries, attempt, fetch_calls, fs,
                   passed, rejected, result>>
    /\ UNCHANGED schedVars
    /\ UNCHANGED queueVars
    /\ UNCHANGED adapterVars
    /\ UNCHANGED configVars
    /\ UNCHANGED compatVars
    /\ UNCHANGED loopVars
    /\ UNCHANGED stopVars
    /\ UNCHANGED promoVars
    /\ UNCHANGED progressVars
    /\ UNCHANGED lifeVars
    /\ UNCHANGED cleanupVars
    /\ UNCHANGED backoffVars

LastSamples(s) == IF Len(s) > StableWindow THEN Tail(s) ELSE s

\* wait_for_file_write has returned v for the path current
Verdict(v) ==
    /\ wait_verdict' = IF v THEN "True" ELSE "False"
    /\ passed' = IF v THEN passed \cup {current} ELSE passed
    /\ IF adapter = "base"
         THEN IF v
                THEN IF fs[current] > MinBytes
                       THEN /\ pc' = "final"
                            /\ UNCHANGED <<fs, rejected, result>>
                       ELSE /\ fs' = Unlink(fs, current)
                            /\ rejected' = rejected \cup {current}
                            /\ pc' = "scan"
                            /\ UNCHANGED result
                ELSE /\ pc' = "scan"
                     /\ UNCHANGED <<fs, rejected, result>>
         ELSE IF fs[current] > 0
                THEN /\ result' = current
                     /\ pc' = "returned"
                     /\ UNCHANGED <<fs, rejected>>
                ELSE /\ pc' = "scan"
                     /\ UNCHANGED <<fs, rejected, result>>

WithinMaxWaitInclusive(p) == p <= MaxPolls

\* "while time.time() - start_time < max_wait", after p iterations of half a
\* second each
WithinMaxWait(p) == p < MaxPolls

\* one iteration of the while loop of wait_for_file_write, or its end when
\* max_wait has elapsed
poll ==
    /\ pc = "wait"
    /\ IF WithinMaxWait(polls)
         THEN IF ~Exists(fs, current)
                THEN /\ polls' = polls + 1
                     /\ UNCHANGED <<last_size, stable_count, samples, wait_verdict,
                                    passed, rejected, result, fs, pc>>
                ELSE /\ samples' = LastSamples(Append(samples, fs[current]))
                     /\ IF fs[current] = last_size
                          THEN /\ stable_count' = stable_count + 1
                               /\ UNCHANGED last_size
                               /\ IF stable_count + 1 >= StableWindow
                                    THEN /\ Verdict(TRUE)
                                         /\ UNCHANGED polls
                                    ELSE /\ polls' = polls + 1
                                         /\ UNCHANGED <<wait_verdict, passed,
                                                        rejected, result, fs, pc>>
                          ELSE /\ stable_count' = 0
                               /\ last_size' = fs[current]
                               /\ polls' = polls + 1
                               /\ UNCHANGED <<wait_verdict, passed,
                                              rejected, result, fs, pc>>
         ELSE /\ Verdict(FALSE)
              /\ UNCHANGED <<last_size, stable_count, polls, samples>>
    /\ UNCHANGED <<adapter, max_retries, attempt, fetch_calls, candidates, current>>
    /\ UNCHANGED schedVars
    /\ UNCHANGED queueVars
    /\ UNCHANGED adapterVars
    /\ UNCHANGED configVars
    /\ UNCHANGED compatVars
    /\ UNCHANGED loopVars
    /\ UNCHANGED stopVars
    /\ UNCHANGED promoVars
    /\ UNCHANGED progressVars
    /\ UNCHANGED lifeVars
    /\ UNCHANGED cleanupVars
    /\ UNCHANGED backoffVars

\* the paths the TikTok adapter falls back to when the glob loop returned
\* nothing: output_path if it is not empty, else any file with the stem in
\* its name that is not empty, else output_path as it is
TikTokFallback ==
    IF Exists(fs, "mp4") /\ fs["mp4"] > 0
      THEN {"mp4"}
      ELSE IF \E n \in Names : Exists(fs, n) /\ fs[n] > 0
             THEN {n \in Names : Exists(fs, n) /\ fs[n] > 0}
             ELSE {"mp4"}

\* the glob loop is over with no file picked
no_candidate ==
    /\ pc = "scan"
    /\ candidates = {}
    /\ IF adapter = "base"
         THEN /\ fs' = Unlink(fs, "mp4")
              /\ AttemptFailed
              /\ UNCHANGED result
         ELSE /\ \E n \in TikTokFallback : result' = n
              /\ pc' = "returned"
              /\ UNCHANGED <<fs, attempt, waits>>
    /\ UNCHANGED <<adapter, max_retries, fetch_calls, candidates, current,
                   last_size, stable_count, polls, samples, wait_verdict,
                   passed, rejected>>
    /\ UNCHANGED schedVars
    /\ UNCHANGED queueVars
    /\ UNCHANGED adapterVars
    /\ UNCHANGED configVars
    /\ UNCHANGED compatVars
    /\ UNCHANGED loopVars
    /\ UNCHANGED stopVars
    /\ UNCHANGED promoVars
    /\ UNCHANGED progressVars
    /\ UNCHANGED lifeVars
    /\ UNCHANGED cleanupVars

\* _ensure_quicktime_compat(filepath) on the files f: the files it leaves
\* and the path it returns, for every behaviour of ffprobe, ffmpeg and the
\* renames
QuickTimeOutcomes(f, filepath) ==
    LET \* ffmpeg.probe raised
        probe_failed == [fs |-> f, ret |-> filepath, step |-> "probe"]
        \* container, codecs and pixel format are fine already
        keep == [fs |-> f, ret |-> filepath, step |-> "not_needed"]
        \* ffmpeg.run raised: the except branch removes temp_output
        transcode_failed == [fs |-> Unlink(f, "qt"), ret |-> filepath, step |-> "transcode"]
        transcoded(s) == [f EXCEPT !["qt"] = s]
        \* target_path == filepath
        in_place(s) ==
            { \* filepath.rename(replacement_path) raised
              [fs |-> Unlink(transcoded(s), "qt"), ret |-> filepath,
               step |-> "rename_original"],
              \* temp_output.rename(target_path) raised
              [fs |-> [f EXCEPT !["orig"] = f[filepath], ![filepath] = Absent,
                                !["qt"] = Absent],
               ret |-> filepath, step |-> "rename_converted"],
              \* both renames done, replacement_path removed
              [fs |-> [f EXCEPT !["mp4"] = s, !["qt"] = Absent, !["orig"] = Absent],
               ret |-> "mp4", step |-> "converted"] }
        \* target_path is filepath.with_suffix('.mp4')
        sibling(s) ==
            { \* temp_output.rename(target_path) raised, target_path removed before
              [fs |-> [f EXCEPT !["mp4"] = Absent, !["qt"] = Absent], ret |-> filepath,
               step |-> "rename_converted"],
              \* renamed, filepath removed
              [fs |-> [f EXCEPT !["mp4"] = s, !["qt"] = Absent, ![filepath] = Absent],
               ret |-> "mp4", step |-> "converted"] }
    IN  {probe_failed, keep, transcode_failed}
        \cup UNION {IF filepath = "mp4" THEN in_place(s) ELSE sibling(s) : s \in Sizes}

\* the steps of _ensure_quicktime_compat that end it by an exception
FailedSteps == {"probe", "transcode", "rename_original", "rename_converted"}

\* after asyncio.sleep(1): the final verification of downloaded_file and the
\* compatibility step, or the failure of the attempt
final_verification ==
    /\ pc = "final"
    /\ IF Exists(fs, current) /\ fs[current] > MinBytes
         THEN /\ \E o \in QuickTimeOutcomes(fs, current) :
                    /\ fs' = o.fs
                    /\ result' = o.ret
                    /\ compat_step' = o.step
              /\ pc' = "returned"
              /\ UNCHANGED <<attempt, waits>>
         ELSE /\ fs' = Unlink(Unlink(fs, current), "mp4")
              /\ AttemptFailed
              /\ UNCHANGED <<result, compat_step>>
    /\ UNCHANGED <<adapter, max_retries, fetch_calls, candidates, current,
                   last_size, stable_count, polls, samples, wait_verdict,
                   passed, rejected>>
    /\ UNCHANGED schedVars
    /\ UNCHANGED queueVars
    /\ UNCHANGED adapterVars
    /\ UNCHANGED configVars
    /\ UNCHANGED loopVars
    /\ UNCHANGED stopVars
    /\ UNCHANGED promoVars
    /\ UNCHANGED progressVars
    /\ UNCHANGED lifeVars
    /\ UNCHANGED cleanupVars

(***************************************************************************)
(* One call of an adapter's download(url, format_id, start_time, end_time):*)
(* the loop over download_configs of FacebookDownloader.download, the      *)
(* fetch of each config and the trim of the fetched file by                *)
(* VideoProcessor.trim_video.  TwitterDownloader.download has the same     *)
(* loop but never reaches it: it reads settings.TWITTER_COOKIES_FILE       *)
(* first, an attribute Settings does not define.                           *)
(***************************************************************************)
AdapterPlatforms == {"twitter", "facebook", "youtube"}

\* the attributes of Settings that name cookie files
CookieSettings == {"YOUTUBE_COOKIES_FILE", "TIKTOK_COOKIES_FILE"}

\* len(download_configs)
NumConfigs == 3

\* the lengths the list of configs can have: download_configs of the
\* Facebook and Twitter adapters, and _get_ydl_configs of the YouTube
\* adapter without and with a cookie file
ConfigCounts(platform) ==
    IF platform = "youtube" THEN {NumConfigs, NumConfigs + 2} ELSE {NumConfigs}

\* trim bounds a request can carry, in seconds
Times == {-5, 0, 5, 10}
OptionalTimes == {<< >>} \cup {<<t>> : t \in Times}

IsNone(x) == x = << >>

\* trim_video: "if start is not None and start < 0: start = 0.0"
Clamp(x) == IF IsNone(x) THEN x ELSE IF x[1] < 0 THEN <<0>> ELSE x

\* VideoProcessor.trim_video(input, output, st, en) up to ffmpeg.run:
\* "ValueError" when it rejects the range, "run" when it runs ffmpeg
trim_video(st, en) ==
    LET start_s == Clamp(st)
        end_s == Clamp(en)
        effective_start == IF IsNone(start_s) THEN 0 ELSE start_s[1]
    IN  IF ~IsNone(start_s) /\ ~IsNone(end_s) /\ end_s[1] <= start_s[1]
          THEN "ValueError"
          ELSE IF ~IsNone(end_s) /\ end_s[1] - effective_start <= 0
                 THEN "ValueError"
                 ELSE "run"

\* the call of trim_video as the adapter writes it.  The YouTube adapter
\* passes (downloaded_file, start_time, end_time, output_path): trim_video
\* takes output_path for end_time and float(end_time) raises TypeError on a
\* Path.  The other adapters pass (downloaded_file, output_path, start_time,
\* end_time).
trim_call(platform, st, en) ==
    IF platform = "youtube" THEN "TypeError" ELSE trim_video(st, en)

\* "if start_time is not None or end_time is not None"
TrimRequested == ~IsNone(start_time) \/ ~IsNone(end_time)

AdapterInit(platforms, starts, ends) ==
    /\ dl_platform \in platforms
    /\ start_time \in starts
    /\ end_time \in ends
    /\ config = 1
    /\ dl_pc = "entry"
    /\ engine_calls = 0
    /\ trim_errors = 0
    /\ next_stem = 0
    /\ output_stem = 0
    /\ stems = << >>
    /\ trim_failures = 0
    /\ dl_result = "none"
    /\ config_count = NumConfigs
    /\ attempted = << >>
    /\ failed_configs = {}

\* download() up to the loop over download_configs: output_path is created;
\* the Twitter adapter then calls _get_cookie_file, which raises
\* AttributeError on settings.TWITTER_COOKIES_FILE
download_entry ==
    /\ dl_pc = "entry"
    /\ next_stem' = next_stem + 1
    /\ output_stem' = next_stem + 1
    /\ dl_pc' = IF dl_platform = "twitter" /\ "TWITTER_COOKIES_FILE" \notin CookieSettings
                  THEN "raised"
                  ELSE "config"
    /\ config_count' \in ConfigCounts(dl_platform)
    /\ UNCHANGED <<dl_platform, start_time, end_time, config, engine_calls,
                   trim_errors, stems, trim_failures, dl_result, attempted,
                   failed_configs>>
    /\ UNCHANGED schedVars
    /\ UNCHANGED queueVars
    /\ UNCHANGED fetchVars
    /\ UNCHANGED configVars
    /\ UNCHANGED compatVars
    /\ UNCHANGED loopVars
    /\ UNCHANGED stopVars
    /\ UNCHANGED promoVars
    /\ UNCHANGED progressVars
    /\ UNCHANGED lifeVars
    /\ UNCHANGED cleanupVars
    /\ UNCHANGED backoffVars

\* the output stem of the engine call of the current config: the stem of a
\* new temp_full when a trim is requested, else the stem of output_path
ConfigStem == IF TrimRequested THEN next_stem + 1 ELSE output_stem

NextConfigSkipping ==
    /\ config' = config + 2
    /\ failed_configs' = failed_configs \cup {config}
    /\ dl_pc' = "config"

\* the except branch of the loop: last_error = e; continue
NextConfig ==
    /\ config' = config + 1
    /\ failed_configs' = failed_configs \cup {config}
    /\ dl_pc' = "config"

\* the engine call of the current config is made
EngineCall ==
    /\ engine_calls' = engine_calls + 1
    /\ attempted' = Append(attempted, config)
    /\ stems' = Append(stems, ConfigStem)
    /\ next_stem' = IF TrimRequested THEN next_stem + 1 ELSE next_stem

\* the fetch of the current config returns a file
download_fetched ==
    /\ dl_pc = "config"
    /\ config <= config_count
    /\ EngineCall
    /\ dl_pc' = IF TrimRequested THEN "fetched" ELSE "returned"
    /\ dl_result' = IF TrimRequested THEN dl_result ELSE "full"
    /\ UNCHANGED <<dl_platform, start_time, end_time, config, trim_errors,
                   output_stem, trim_failures, config_count, failed_configs>>
    /\ UNCHANGED schedVars
    /\ UNCHANGED queueVars
    /\ UNCHANGED fetchVars
    /\ UNCHANGED configVars
    /\ UNCHANGED compatVars
    /\ UNCHANGED loopVars
    /\ UNCHANGED stopVars
    /\ UNCHANGED promoVars
    /\ UNCHANGED progressVars
    /\ UNCHANGED lifeVars
    /\ UNCHANGED cleanupVars
    /\ UNCHANGED backoffVars

\* the fetch of the current config raises, or its file is missing or too
\* small
download_fetch_failed ==
    /\ dl_pc = "config"
    /\ config <= config_count
    /\ EngineCall
    /\ NextConfig
    /\ UNCHANGED <<dl_platform, start_time, end_time, trim_errors, output_stem,
                   trim_failures, dl_result, config_count>>
    /\ UNCHANGED schedVars
    /\ UNCHANGED queueVars
    /\ UNCHANGED fetchVars
    /\ UNCHANGED configVars
    /\ UNCHANGED compatVars
    /\ UNCHANGED loopVars
    /\ UNCHANGED stopVars
    /\ UNCHANGED promoVars
    /\ UNCHANGED progressVars
    /\ UNCHANGED lifeVars
    /\ UNCHANGED cleanupVars
    /\ UNCHANGED backoffVars

\* trim_video raised inside the try of the loop: "except Exception as e:
\* last_error = e; continue"
TrimRaised ==
    /\ trim_failures' = trim_failures + 1
    /\ NextConfig
    /\ UNCHANGED dl_result

\* processor.trim_video(downloaded_file, output_path, start_time, end_time):
\* it rejects the range, or ffmpeg runs and succeeds or fails
download_trim ==
    /\ dl_pc = "fetched"
    /\ CASE trim_call(dl_platform, start_time, end_time) = "ValueError" ->
               /\ trim_errors' = trim_errors + 1
               /\ TrimRaised
         [] trim_call(dl_platform, start_time, end_time) = "TypeError" ->
               /\ UNCHANGED trim_errors
               /\ TrimRaised
         [] OTHER ->
               /\ UNCHANGED trim_errors
               /\ \/ /\ dl_pc' = "returned"
                     /\ dl_result' = "trimmed"
                     /\ UNCHANGED <<config, trim_failures, failed_configs>>
                  \/ TrimRaised
    /\ UNCHANGED <<dl_platform, start_time, end_time, engine_calls, next_stem,
                   output_stem, stems, config_count, attempted>>
    /\ UNCHANGED schedVars
    /\ UNCHANGED queueVars
    /\ UNCHANGED fetchVars
    /\ UNCHANGED configVars
    /\ UNCHANGED compatVars
    /\ UNCHANGED loopVars
    /\ UNCHANGED stopVars
    /\ UNCHANGED promoVars
    /\ UNCHANGED progressVars
    /\ UNCHANGED lifeVars
    /\ UNCHANGED cleanupVars
    /\ UNCHANGED backoffVars

\* every config failed: "raise Exception(Could not download ...)"
download_raise ==
    /\ dl_pc = "config"
    /\ config > config_count
    /\ dl_pc' = "raised"
    /\ UNCHANGED <<dl_platform, start_time, end_time, config, engine_calls,
                   trim_errors, next_stem, output_stem, stems, trim_failures,
                   dl_result, config_count, attempted, failed_configs>>
    /\ UNCHANGED schedVars
    /\ UNCHANGED queueVars
    /\ UNCHANGED fetchVars
    /\ UNCHANGED configVars
    /\ UNCHANGED compatVars
    /\ UNCHANGED loopVars
    /\ UNCHANGED stopVars
    /\ UNCHANGED promoVars
    /\ UNCHANGED progressVars
    /\ UNCHANGED lifeVars
    /\ UNCHANGED cleanupVars
    /\ UNCHANGED backoffVars

(***************************************************************************)
(* The cookie file YouTubeDownloader._locate_cookie_file picks, the list   *)
(* of configs _get_ydl_configs builds from it, and                         *)
(* TwitterDownloader._get_cookie_file.                                     *)
(***************************************************************************)
\* candidates in the order of the list: settings.YOUTUBE_COOKIES_FILE, then
\* www.youtube.com_cookies.txt under two of the search roots
CandidateOrder == <<"configured", "cwd", "home">>
Candidates == {CandidateOrder[i] : i \in 1..Len(CandidateOrder)}

NoCookieFile == [exists |-> FALSE, size |-> 0, age |-> 0]
\* st_size of a candidate, around the limit of 100 bytes
CookieSizes == {0, 100, 101}
\* age of a candidate in hours, around the limits of 48 hours and 30 days
CookieAges == {24, 48, 49, 720, 721}
CookieFileStates ==
    {NoCookieFile} \cup
    {[exists |-> TRUE, size |-> sz, age |-> a] : sz \in CookieSizes, a \in CookieAges}

\* self.user_agents
UserAgents == {"chrome120-win", "chrome119-win", "chrome120-mac", "firefox121", "safari17"}

SufficientDataAlways(size) == TRUE

\* not "if file_size <= 100: continue"
SufficientData(size) == ~(size <= 100)

\* "if age_hours <= 48"
IsFresh(f) == f.age <= 48
\* the fallback without its limit of 30 days
IsStaleUnbounded(f) == ~IsFresh(f)

\* "elif age_hours <= 24 * 30"
IsStale(f) == ~IsFresh(f) /\ f.age <= 24 * 30

\* max(cookie_pool, key=st_mtime): the youngest file, the first of the pool
\* among equals
BestCookie(files, pool) ==
    pool[CHOOSE i \in 1..Len(pool) :
            /\ \A j \in 1..Len(pool) : files[pool[i]].age <= files[pool[j]].age
            /\ \A j \in 1..(i - 1) : files[pool[j]].age > files[pool[i]].age]

\* YouTubeDownloader._locate_cookie_file
locate_cookie_file(files) ==
    LET usable(c) == files[c].exists /\ SufficientData(files[c].size)
        fresh_cookies == SelectSeq(CandidateOrder, LAMBDA c : usable(c) /\ IsFresh(files[c]))
        stale_cookies == SelectSeq(CandidateOrder, LAMBDA c : usable(c) /\ IsStale(files[c]))
        cookie_pool == IF fresh_cookies # << >> THEN fresh_cookies ELSE stale_cookies
    IN  IF cookie_pool # << >> THEN BestCookie(files, cookie_pool) ELSE "None"

\* the two configs _get_ydl_configs builds around the cookie file
CookieConfigs(cookie, info) ==
    << [cookiefile |-> cookie, skip_download |-> info,
        format |-> IF info THEN "None" ELSE "bestvideo[ext=mp4]+bestaudio[ext=m4a]/bestvideo+bestaudio/best[ext=mp4]/best",
        user_agent |-> "chrome125-win", sleep_interval |-> 1, player_client |-> FALSE],
       [cookiefile |-> cookie, skip_download |-> info,
        format |-> IF info THEN "None" ELSE "best[height<=1080]/best",
        user_agent |-> "chrome125-win", sleep_interval |-> 2, player_client |-> FALSE] >>

\* build_config(format_string, user_agent, extra)
build_config(format_string, user_agent, sleep, info) ==
    [cookiefile |-> "None", skip_download |-> info,
     format |-> IF info THEN "None" ELSE format_string,
     user_agent |-> user_agent, sleep_interval |-> sleep, player_client |-> TRUE]

\* the three configs without cookie file, ua1 and ua2 being the two results
\* of random.choice(self.user_agents)
AnonymousConfigs(info, ua1, ua2) ==
    << build_config("best", ua1, 1, info),
       build_config("best[height<=720]/best", ua2, 2, info),
       build_config("best", "iphone-safari17", 3, info) >>

get_ydl_configs_cookie_last(cookie, info, ua1, ua2) ==
    AnonymousConfigs(info, ua1, ua2)
        \o (IF cookie # "None" THEN CookieConfigs(cookie, info) ELSE << >>)

\* YouTubeDownloader._get_ydl_configs(cookie_path, for_info=info)
get_ydl_configs(cookie, info, ua1, ua2) ==
    (IF cookie # "None" THEN CookieConfigs(cookie, info) ELSE << >>)
        \o AnonymousConfigs(info, ua1, ua2)

\* TwitterDownloader._get_cookie_file, f being the file at
\* settings.TWITTER_COOKIES_FILE
get_cookie_file(f) ==
    IF "TWITTER_COOKIES_FILE" \notin CookieSettings
      THEN "AttributeError"
      ELSE IF f.exists /\ f.size > 0 THEN "configured" ELSE "None"

\* "if 'cookiefile' in base_opts"
Category(cfg) == IF cfg.cookiefile # "None" THEN "cookie" ELSE "anonymous"
Categories(cs) == [i \in 1..Len(cs) |-> Category(cs[i])]

ConfigInit(files, infos) ==
    /\ cookie_files \in files
    /\ for_info \in infos
    /\ cookie_path = "None"
    /\ configs = << >>
    /\ cfg_pc = "start"

\* cookie_path = self._locate_cookie_file()
cookie_located ==
    /\ cfg_pc = "start"
    /\ cookie_path' = locate_cookie_file(cookie_files)
    /\ cfg_pc' = "located"
    /\ UNCHANGED <<cookie_files, for_info, configs>>
    /\ UNCHANGED schedVars
    /\ UNCHANGED queueVars
    /\ UNCHANGED fetchVars
    /\ UNCHANGED adapterVars
    /\ UNCHANGED compatVars
    /\ UNCHANGED loopVars
    /\ UNCHANGED stopVars
    /\ UNCHANGED promoVars
    /\ UNCHANGED progressVars
    /\ UNCHANGED lifeVars
    /\ UNCHANGED cleanupVars
    /\ UNCHANGED backoffVars

\* configs = self._get_ydl_configs(cookie_path, for_info=...)
configs_built ==
    /\ cfg_pc = "located"
    /\ \E ua1, ua2 \in UserAgents :
         configs' = get_ydl_configs(cookie_path, for_info, ua1, ua2)
    /\ cfg_pc' = "built"
    /\ UNCHANGED <<cookie_files, for_info, cookie_path>>
    /\ UNCHANGED schedVars
    /\ UNCHANGED queueVars
    /\ UNCHANGED fetchVars
    /\ UNCHANGED adapterVars
    /\ UNCHANGED compatVars
    /\ UNCHANGED loopVars
    /\ UNCHANGED stopVars
    /\ UNCHANGED promoVars
    /\ UNCHANGED progressVars
    /\ UNCHANGED lifeVars
    /\ UNCHANGED cleanupVars
    /\ UNCHANGED backoffVars

(***************************************************************************)
(* The event loop: _scheduler_loop, the routes and every _process_download *)
(* are coroutines of one thread.  A coroutine that calls the engine        *)
(* through run_in_executor gives the thread back while the engine works; a *)
(* coroutine that calls ydl.download itself keeps the thread until the     *)
(* call is over.                                                           *)
(***************************************************************************)
\* keys of DownloadScheduler.downloaders
SchedulerPlatforms == {"youtube", "tiktok", "facebook", "twitter"}

\* how download(url, format_id) of each adapter calls ydl.download:
\* youtube.py 591 and facebook.py 501 through loop.run_in_executor,
\* tiktok.py 178 directly inside the coroutine; the Twitter adapter raises
\* before any call
EngineCallMode(platform) ==
    CASE platform \in {"youtube", "facebook"} -> "executor"
      [] platform = "tiktok" -> "inline"
      [] OTHER -> "none"

LoopInit(platforms) ==
    /\ request_platform \in [1..MaxJobs -> platforms]
    /\ fetch_state = [q \in 1..MaxJobs |-> "none"]

\* the event loop thread is not inside a synchronous call
LoopFree == \A q \in 1..MaxJobs : fetch_state[q] # "inline"

\* the engine call of some promoted job is in progress
FetchInProgress == \E q \in 1..MaxJobs : fetch_state[q] \in {"executor", "inline"}

\* the event loop resumes _scheduler_loop for its next iteration
control_loop_step ==
    /\ LoopFree
    /\ scheduler_loop

\* _process_download of row q runs up to the engine call of its adapter
fetch_begin(q) ==
    /\ LoopFree
    /\ q \in QueueIds
    /\ tasks[q] = "running"
    /\ fetch_state[q] = "none"
    /\ EngineCallMode(request_platform[q]) # "none"
    /\ fetch_state' = [fetch_state EXCEPT ![q] = EngineCallMode(request_platform[q])]
    /\ UNCHANGED request_platform
    /\ UNCHANGED schedVars
    /\ UNCHANGED queueVars
    /\ UNCHANGED fetchVars
    /\ UNCHANGED adapterVars
    /\ UNCHANGED configVars
    /\ UNCHANGED compatVars
    /\ UNCHANGED stopVars
    /\ UNCHANGED promoVars
    /\ UNCHANGED progressVars
    /\ UNCHANGED lifeVars
    /\ UNCHANGED cleanupVars
    /\ UNCHANGED backoffVars

\* the engine call of row q returns or raises
fetch_end(q) ==
    /\ q \in QueueIds
    /\ fetch_state[q] \in {"executor", "inline"}
    /\ fetch_state' = [fetch_state EXCEPT ![q] = "done"]
    /\ UNCHANGED request_platform
    /\ UNCHANGED schedVars
    /\ UNCHANGED queueVars
    /\ UNCHANGED fetchVars
    /\ UNCHANGED adapterVars
    /\ UNCHANGED configVars
    /\ UNCHANGED compatVars
    /\ UNCHANGED stopVars
    /\ UNCHANGED promoVars
    /\ UNCHANGED progressVars
    /\ UNCHANGED lifeVars
    /\ UNCHANGED cleanupVars
    /\ UNCHANGED backoffVars

\* _process_download of row q can run to its end: the thread is free and
\* downloader.download has returned or raised
CanFinish(q) ==
    /\ LoopFree
    /\ \/ fetch_state[q] = "done"
       \/ EngineCallMode(request_platform[q]) = "none"

(***************************************************************************)
(* Specifications                                                          *)
(***************************************************************************)
\* the scheduler at work, the in-memory queue left as constructed
FetchIdle == FetchInit({"base"}, {DefaultMaxRetries})
AdapterIdle == AdapterInit({"twitter"}, {<< >>}, {<< >>})
ConfigIdle == ConfigInit({[c \in Candidates |-> NoCookieFile]}, {FALSE})
LoopIdle == LoopInit({"youtube"})
StopIdle == stop_pc = "none"
PromoIdle == task_count = [q \in 1..MaxJobs |-> 0]
ProgressIdle == ProgressInit
LifeIdle == scheduler_loops = 0 /\ cleanup_tasks = 0
CleanupIdle == deleted = {} /\ last_cleanup = NoTime
BackoffIdle == waits = << >>

Init == SchedInit /\ QueueInit({DefaultMaxConcurrent}) /\ FetchIdle /\ AdapterIdle /\ ConfigIdle /\ LoopIdle /\ StopIdle /\ PromoIdle /\ ProgressIdle /\ LifeIdle /\ CleanupIdle /\ BackoffIdle

Next ==
    \/ start
    \/ Tick
    \/ \E u \in Submitters : schedule_download(u, DefaultPriority)
    \/ scheduler_loop
    \/ \E q \in 1..MaxJobs : process_download_ok(q)
    \/ \E q \in 1..MaxJobs : process_download_fail(q)
    \/ \E q \in 1..MaxJobs, u \in Users : cancel_download(q, u)
    \/ download_video_begin
    \/ download_video_end

Spec == Init /\ [][Next]_vars

\* The same scheduler fed by one user with explicit priorities: the runs the
\* ordering of _get_next_downloads is checked on.
NextOrder ==
    \/ start
    \/ Tick
    \/ \E u \in Submitters, p \in Priorities : schedule_download(u, p)
    \/ scheduler_loop
    \/ \E q \in 1..MaxJobs : process_download_ok(q)
    \/ \E q \in 1..MaxJobs : process_download_fail(q)

SpecOrder == Init /\ [][NextOrder]_vars

\* The in-memory DownloadQueue at work, the scheduler left as constructed.
InitQueue ==
    /\ SchedInit
    /\ max_concurrent_downloads = DefaultMaxConcurrent
    /\ QueueInit(1..MaxLimit)
    /\ FetchIdle
    /\ AdapterIdle
    /\ ConfigIdle
    /\ LoopIdle
    /\ StopIdle
    /\ PromoIdle
    /\ ProgressIdle
    /\ LifeIdle
    /\ CleanupIdle
    /\ BackoffIdle

NextQueue ==
    \/ /\ Len(dtasks) < MaxTasks
       /\ \E u \in Submitters, pf \in Platforms, cb \in BOOLEAN : add_download(u, pf, cb)
    \/ \E t \in 1..MaxTasks, u \in Users : cancel_task(t, u)
    \/ process_queue_start
    \/ process_queue_resume
    \/ \E t \in 1..MaxTasks : execute_task_begin(t)
    \/ \E t \in 1..MaxTasks : execute_task_info(t)
    \/ \E t \in 1..MaxTasks : execute_task_done(t)
    \/ \E t \in 1..MaxTasks : execute_task_fail(t)

SpecQueue == InitQueue /\ [][NextQueue]_vars

\* The same queue on a fair event loop with downloads that end: a coroutine
\* that can run does run, and get_video_info and download return or raise.
FairSpecQueue ==
    /\ SpecQueue
    /\ WF_vars(process_queue_start)
    /\ WF_vars(process_queue_resume)
    /\ \A t \in 1..MaxTasks :
          /\ WF_vars(execute_task_begin(t))
          /\ WF_vars(execute_task_info(t) \/ execute_task_fail(t))
          /\ WF_vars(execute_task_done(t) \/ execute_task_fail(t))

\* One download at work: verify_and_retry_download with max_retries from 1
\* to MaxRetries, or TikTokDownloader.download.
InitFetch ==
    /\ SchedInit
    /\ max_concurrent_downloads = DefaultMaxConcurrent
    /\ QueueInit({DefaultMaxConcurrent})
    /\ FetchInit({"base", "tiktok"}, 0..MaxRetries)
    /\ adapter = "tiktok" => max_retries = 1
    /\ AdapterIdle
    /\ ConfigIdle
    /\ LoopIdle
    /\ StopIdle
    /\ PromoIdle
    /\ ProgressIdle
    /\ LifeIdle
    /\ CleanupIdle
    /\ BackoffIdle

NextFetch ==
    \/ fetch_returns
    \/ fetch_raises
    \/ exhausted
    \/ backoff_over
    \/ grow
    \/ locate
    \/ next_candidate
    \/ poll
    \/ no_candidate
    \/ final_verification

SpecFetch == InitFetch /\ [][NextFetch]_vars

\* The same download on an event loop that runs every coroutine that can
\* run: each sleep and each call of the engine comes back.
FairSpecFetch == SpecFetch /\ WF_vars(NextFetch)

\* One call of an adapter's download, with every trim range.
InitAdapter ==
    /\ SchedInit
    /\ max_concurrent_downloads = DefaultMaxConcurrent
    /\ QueueInit({DefaultMaxConcurrent})
    /\ FetchIdle
    /\ AdapterInit(AdapterPlatforms, OptionalTimes, OptionalTimes)
    /\ ConfigIdle
    /\ LoopIdle
    /\ StopIdle
    /\ PromoIdle
    /\ ProgressIdle
    /\ LifeIdle
    /\ CleanupIdle
    /\ BackoffIdle

NextAdapter ==
    \/ download_entry
    \/ download_fetched
    \/ download_fetch_failed
    \/ download_trim
    \/ download_raise

SpecAdapter == InitAdapter /\ [][NextAdapter]_vars

\* jobs of the scheduler, and tasks of the queue, in the runs with both
CancelJobs == 2

\* The scheduler and the in-memory queue side by side, as main.py holds
\* them, with cancel requests from the owner and from another user.
InitCancel ==
    /\ SchedInit
    /\ max_concurrent_downloads = 1
    /\ QueueInit({1})
    /\ FetchIdle
    /\ AdapterIdle
    /\ ConfigIdle
    /\ LoopIdle
    /\ StopIdle
    /\ PromoIdle
    /\ ProgressIdle
    /\ LifeIdle
    /\ CleanupIdle
    /\ BackoffIdle

NextCancel ==
    \/ start
    \/ /\ Len(rows) < CancelJobs
       /\ \E u \in Submitters : schedule_download(u, DefaultPriority)
    \/ scheduler_loop
    \/ \E q \in 1..CancelJobs : process_download_ok(q)
    \/ \E q \in 1..CancelJobs : process_download_fail(q)
    \/ \E q \in 1..CancelJobs, u \in Users : cancel_download(q, u)
    \/ /\ Len(dtasks) < CancelJobs
       /\ \E u \in Submitters : add_download(u, "youtube", FALSE)
    \/ \E t \in 1..CancelJobs, u \in Users : cancel_task(t, u)
    \/ process_queue_start
    \/ process_queue_resume
    \/ \E t \in 1..CancelJobs : execute_task_begin(t)
    \/ \E t \in 1..CancelJobs : execute_task_info(t)
    \/ \E t \in 1..CancelJobs : execute_task_done(t)
    \/ \E t \in 1..CancelJobs : execute_task_fail(t)

SpecCancel == InitCancel /\ [][NextCancel]_vars

\* The scheduler on its event loop, with jobs of every platform.
InitLoop ==
    /\ SchedInit
    /\ QueueInit({DefaultMaxConcurrent})
    /\ FetchIdle
    /\ AdapterIdle
    /\ ConfigIdle
    /\ LoopInit(SchedulerPlatforms)
    /\ StopIdle
    /\ PromoIdle
    /\ ProgressIdle
    /\ LifeIdle
    /\ CleanupIdle
    /\ BackoffIdle

NextLoop ==
    \/ LoopFree /\ start
    \/ LoopFree /\ \E u \in Submitters : schedule_download(u, DefaultPriority)
    \/ control_loop_step
    \/ \E q \in 1..MaxJobs : fetch_begin(q)
    \/ \E q \in 1..MaxJobs : fetch_end(q)
    \/ \E q \in 1..MaxJobs : CanFinish(q) /\ process_download_ok(q) /\ fetch_state[q] = "done"
    \/ \E q \in 1..MaxJobs : CanFinish(q) /\ process_download_fail(q)

SpecLoop == InitLoop /\ [][NextLoop]_vars

\* _process_download of the first row is at "await downloader.download(...)"
JobRunning == 1 \in QueueIds /\ tasks[1] = "running"

\* One scheduled job from its submission to its terminal status, with the
\* call downloader.download(url, format_id) of _process_download spelled
\* out: the scheduler passes no trim range.
InitJob ==
    /\ SchedInit
    /\ QueueInit({DefaultMaxConcurrent})
    /\ FetchIdle
    /\ AdapterInit(AdapterPlatforms, {<< >>}, {<< >>})
    /\ ConfigIdle
    /\ LoopIdle
    /\ StopIdle
    /\ PromoIdle
    /\ ProgressIdle
    /\ LifeIdle
    /\ CleanupIdle
    /\ BackoffIdle

NextJob ==
    \/ start
    \/ Tick
    \/ Len(rows) < 1 /\ \E u \in Submitters : schedule_download(u, DefaultPriority)
    \/ scheduler_loop
    \/ JobRunning /\ download_entry
    \/ JobRunning /\ download_fetched
    \/ JobRunning /\ download_fetch_failed
    \/ JobRunning /\ download_raise
    \/ dl_pc = "returned" /\ process_download_ok(1)
    \/ dl_pc = "raised" /\ process_download_fail(1)

SpecJob == InitJob /\ [][NextJob]_vars

\* The scheduler from startup to shutdown: stop() is called once, while
\* jobs are queued or in flight.
NextStop ==
    \/ stop_pc = "none" /\ start
    \/ \E u \in Submitters : schedule_download(u, DefaultPriority)
    \/ scheduler_loop
    \/ \E q \in 1..MaxJobs : process_download_ok(q)
    \/ \E q \in 1..MaxJobs : process_download_fail(q)
    \/ stop
    \/ stop_returns

SpecStop == Init /\ [][NextStop]_vars

\* The scheduler started, stopped and started again, with jobs in flight.
NextLife ==
    \/ start
    \/ \E u \in Submitters : schedule_download(u, DefaultPriority)
    \/ scheduler_loop
    \/ \E q \in 1..MaxJobs : process_download_ok(q)
    \/ \E q \in 1..MaxJobs : process_download_fail(q)
    \/ stop
    \/ stop_returns
    \/ scheduler_loop_exit
    \/ cleanup_task_exit

SpecLife == Init /\ [][NextLife]_vars

\* The table as the scheduler has left it after days of work: PruneRows
\* rows, each queued, in progress, or finished on one of the days
\* CompletedDays, looked at on one of the days PruneDays.
PruneRows == 2
CompletedDays == {0, 1, 2, 3}
PruneDays == {7, 9, 10}

RowShapes ==
    {[user |-> "alice", priority |-> DefaultPriority, status |-> "queued",
      created_at |-> 0, started_at |-> NoTime, completed_at |-> NoTime,
      error_message |-> NoError],
     [user |-> "alice", priority |-> DefaultPriority, status |-> "processing",
      created_at |-> 0, started_at |-> 0, completed_at |-> NoTime,
      error_message |-> NoError]}
    \cup {[user |-> "alice", priority |-> DefaultPriority, status |-> st,
            created_at |-> 0, started_at |-> 0, completed_at |-> d,
            error_message |-> IF st = "failed" THEN "error" ELSE NoError] :
              st \in {"completed", "failed"}, d \in CompletedDays}

InitPrune ==
    /\ rows \in [1..PruneRows -> RowShapes]
    /\ tasks = [q \in 1..PruneRows |->
                  IF rows[q].status = "queued" THEN "none"
                  ELSE IF rows[q].status = "processing" THEN "running"
                  ELSE "done"]
    /\ current_downloads = {q \in 1..PruneRows : rows[q].status = "processing"}
    /\ is_running = TRUE
    /\ max_concurrent_downloads = DefaultMaxConcurrent
    /\ now \in PruneDays
    /\ cancel_result = FALSE
    /\ interactive = 0
    /\ QueueInit({DefaultMaxConcurrent})
    /\ FetchIdle
    /\ AdapterIdle
    /\ ConfigIdle
    /\ LoopIdle
    /\ StopIdle
    /\ task_count = [q \in 1..MaxJobs |->
                       IF q <= PruneRows /\ rows[q].status # "queued" THEN 1 ELSE 0]
    /\ ProgressIdle
    /\ scheduler_loops = 1
    /\ cleanup_tasks = 1
    /\ CleanupIdle
    /\ BackoffIdle

NextPrune == cleanup_task

SpecPrune == InitPrune /\ [][NextPrune]_vars

\* verify_and_retry_download with its default of three attempts.
InitBackoff ==
    /\ SchedInit
    /\ max_concurrent_downloads = DefaultMaxConcurrent
    /\ QueueInit({DefaultMaxConcurrent})
    /\ FetchInit({"base"}, 1..DefaultMaxRetries)
    /\ AdapterIdle
    /\ ConfigIdle
    /\ LoopIdle
    /\ StopIdle
    /\ PromoIdle
    /\ ProgressIdle
    /\ LifeIdle
    /\ CleanupIdle
    /\ BackoffIdle

SpecBackoff == InitBackoff /\ [][NextFetch]_vars

\* The queue after HistoryLimit tasks were downloaded one after the other:
\* all of them are in completed and the processor sleeps after reaping the
\* last.  HistoryTasks more tasks are then added.
HistoryTasks == 2
NewTaskIds == (HistoryLimit + 1)..(HistoryLimit + HistoryTasks)

DownloadedTask ==
    [NewDownloadTask("alice", "youtube", FALSE) EXCEPT
        !.status = "completed", !.file_path = "path", !.file_size = 1025,
        !.run = "done", !.executions = 1]

InitHistory ==
    /\ SchedInit
    /\ max_concurrent_downloads = DefaultMaxConcurrent
    /\ dtasks = [t \in 1..HistoryLimit |-> DownloadedTask]
    /\ queue = << >>
    /\ active = {}
    /\ completed = 1..HistoryLimit
    /\ processing = TRUE
    /\ queue_event = TRUE
    /\ max_concurrent = DefaultMaxConcurrent
    /\ processors_created = 0
    /\ processor = "sleeping"
    /\ cancel_task_result = FALSE
    /\ FetchIdle
    /\ AdapterIdle
    /\ ConfigIdle
    /\ LoopIdle
    /\ StopIdle
    /\ PromoIdle
    /\ ProgressIdle
    /\ LifeIdle
    /\ CleanupIdle
    /\ BackoffIdle

NextHistory ==
    \/ /\ Len(dtasks) < HistoryLimit + HistoryTasks
       /\ \E u \in Submitters, pf \in Platforms, cb \in BOOLEAN : add_download(u, pf, cb)
    \/ \E t \in NewTaskIds, u \in Users : cancel_task(t, u)
    \/ process_queue_resume
    \/ \E t \in NewTaskIds : execute_task_begin(t)
    \/ \E t \in NewTaskIds : execute_task_info(t)
    \/ \E t \in NewTaskIds : execute_task_done(t)
    \/ \E t \in NewTaskIds : execute_task_fail(t)

SpecHistory == InitHistory /\ [][NextHistory]_vars

\* Interactive downloads of several users with their progress events.
NextProgress ==
    \/ \E u \in Users, pf \in ProgressPlatforms : progress_request_begin(u, pf)
    \/ \E u \in Users : emit_progress(u)
    \/ \E u \in Users : progress_request_end(u)
    \/ \E u \in Users : progress_request_failed(u)

SpecProgress == Init /\ [][NextProgress]_vars

\* The config list of one YouTube request, for every state of the candidate
\* cookie files.
InitConfigs ==
    /\ SchedInit
    /\ max_concurrent_downloads = DefaultMaxConcurrent
    /\ QueueInit({DefaultMaxConcurrent})
    /\ FetchIdle
    /\ AdapterIdle
    /\ ConfigInit([Candidates -> CookieFileStates], BOOLEAN)
    /\ LoopIdle
    /\ StopIdle
    /\ PromoIdle
    /\ ProgressIdle
    /\ LifeIdle
    /\ CleanupIdle
    /\ BackoffIdle

NextConfigs ==
    \/ cookie_located
    \/ configs_built

SpecConfigs == InitConfigs /\ [][NextConfigs]_vars

(***************************************************************************)
(* Properties                                                              *)
(***************************************************************************)
Processing == {q \in QueueIds : rows[q].status = "processing"}
Terminal == {"completed", "failed"}
IndexOf(s, x) == CHOOSE i \in 1..Len(s) : s[i] = x

\* C1: with max_concurrent_downloads fixed at N, at most N queue rows have
\* status 'processing' and current_downloads holds at most N tasks, in every
\* reachable state.
C1_ProcessingBounded ==
    /\ Cardinality(Processing) <= max_concurrent_downloads
    /\ Cardinality(current_downloads) <= max_concurrent_downloads

\* more than N jobs were submitted, N of them are processing, one waits
C1_Witness ==
    /\ Len(rows) > max_concurrent_downloads
    /\ Cardinality(Processing) = max_concurrent_downloads
    /\ Cardinality(current_downloads) = max_concurrent_downloads
    /\ Queued # {}

\* C2: the interactive downloads in progress plus the scheduler's downloads
\* in flight never exceed max_concurrent_downloads.
C2_SharedCeiling ==
    interactive + Cardinality(current_downloads) <= max_concurrent_downloads

\* C3: once a queue row's status is completed or failed, no step changes it.
C3_StatusForward ==
    [][\A q \in QueueIds :
          rows[q].status \in Terminal => rows'[q].status = rows[q].status]_vars

\* C4: cancel_download by the owner on a row that is completed, or that an
\* earlier cancel_download cancelled, returns False and leaves the row as
\* it was.
C4_CancelIdempotent ==
    [][\A q \in QueueIds, u \in Users :
          ( /\ cancel_download(q, u)
            /\ rows[q].user = u
            /\ \/ rows[q].status = "completed"
               \/ /\ rows[q].status = "failed"
                  /\ rows[q].error_message = "Cancelled by user" )
          => (cancel_result' = FALSE /\ rows'[q] = rows[q])]_vars

\* C6: every list _get_next_downloads(n) can return holds only queued rows,
\* at most n of them, in descending order of priority, no row left out has
\* a higher priority than a row returned, and rows enqueued with priorities
\* 1, 5, 3 come back as the second, the third, the first.
C6_PriorityOrder ==
    /\ \A n \in 1..MaxJobs : \A res \in get_next_downloads(n) :
          /\ Len(res) <= n
          /\ \A i \in 1..Len(res) : rows[res[i]].status = "queued"
          /\ \A i, j \in 1..Len(res) :
                i < j => rows[res[i]].priority >= rows[res[j]].priority
          /\ \A q \in Queued \ Range(res) : \A i \in 1..Len(res) :
                rows[res[i]].priority >= rows[q].priority
    /\ ( /\ Queued = {1, 2, 3}
         /\ rows[1].priority = 1 /\ rows[2].priority = 5 /\ rows[3].priority = 3 )
       => get_next_downloads(3) = {<<2, 3, 1>>}

\* rows enqueued with priorities 1, 5, 3: an iteration with two free slots
\* has promoted the rows of priority 5 and 3 and left the row of priority 1
C6_Witness ==
    /\ Len(rows) = 3
    /\ rows[1].priority = 1 /\ rows[2].priority = 5 /\ rows[3].priority = 3
    /\ rows[1].status = "queued"
    /\ rows[2].status = "processing" /\ rows[3].status = "processing"
    /\ rows[2].started_at = rows[3].started_at

\* C7: of two queued rows of equal priority, the one enqueued later is never
\* returned by _get_next_downloads before, or without, the one enqueued
\* first.
C7_StableFifo ==
    \A n \in 1..MaxJobs : \A res \in get_next_downloads(n) :
       \A a, b \in Queued :
          (a < b /\ rows[a].priority = rows[b].priority /\ b \in Range(res))
          => (a \in Range(res) /\ IndexOf(res, a) < IndexOf(res, b))

\* C5: every task added with a progress_callback that has ended (completed,
\* failed or cancelled) has received at least one terminal progress event.
C5_TerminalEvent ==
    \A t \in TaskIds :
       (dtasks[t].callback /\ dtasks[t].status \in Finished)
       => dtasks[t].terminal_events >= 1

\* C8: verify_and_retry_download calls the extraction engine max_retries
\* times, no more and no fewer, before it raises, and a call that returns a
\* file has made one engine call per iteration begun: one when the first
\* attempt yields the file.
C8_ExactAttempts ==
    adapter = "base" =>
        /\ fetch_calls <= max_retries
        /\ pc = "raised" => fetch_calls = max_retries
        /\ pc = "returned" => fetch_calls = attempt + 1

C8_Witness ==
    /\ adapter = "base"
    /\ pc = "raised"
    /\ max_retries >= 2
    /\ fetch_calls = max_retries

\* C9: the path verify_and_retry_download returns names a file that exists
\* and is larger than 1024 bytes when it is returned, and no file found too
\* small is left on disk.
C9_MinimumSize ==
    (adapter = "base" /\ pc = "returned") =>
        /\ Exists(fs, result)
        /\ fs[result] > MinBytes
        /\ \A n \in rejected : n # result

\* C10: wait_for_file_write answers True only when the last StableWindow
\* sizes it read are equal, and a download returns no file for which
\* wait_for_file_write has not answered True.
C10_NoGrowingFile ==
    /\ wait_verdict = "True" =>
          /\ Len(samples) = StableWindow
          /\ \A i \in 1..Len(samples) : samples[i] = samples[1]
    /\ pc = "returned" => (IF adapter = "base" THEN current ELSE result) \in passed

\* C11: a request whose trim range has end <= start is rejected before the
\* extraction engine is called: no engine call is made for such a request.
C11_FailFast ==
    (~IsNone(start_time) /\ ~IsNone(end_time) /\ end_time[1] <= start_time[1])
        => engine_calls = 0

\* C12: a DownloadQueue task that is completed had, at the instant it was
\* marked, a result file that exists and is larger than the minimum size.
C12_RevalidatedAtCompletion ==
    \A t \in TaskIds :
        dtasks[t].status = "completed" => dtasks[t].file_size > MinBytes

\* C13: in DownloadQueue, a task has a file_path if and only if its status
\* is COMPLETED, in every reachable state.
C13_FilePathIffCompleted ==
    \A t \in TaskIds :
        (dtasks[t].file_path # "None") <=> (dtasks[t].status = "completed")

\* one task completed with its path, one failed and one cancelled without
C13_Witness ==
    /\ \E t \in TaskIds : dtasks[t].status = "completed" /\ dtasks[t].file_path # "None"
    /\ \E t \in TaskIds : dtasks[t].status = "failed" /\ dtasks[t].file_path = "None"
    /\ \E t \in TaskIds : dtasks[t].status = "cancelled" /\ dtasks[t].file_path = "None"

\* C14: a queue row with an error_message has status 'failed', and a
\* DownloadQueue task with an error has status FAILED, in every reachable
\* state.
C14_ErrorOnlyWhenFailed ==
    /\ \A q \in QueueIds :
          rows[q].error_message # NoError => rows[q].status = "failed"
    /\ \A t \in TaskIds :
          dtasks[t].error # "None" => dtasks[t].status = "failed"

\* C15: when more tasks than max_concurrent were added to DownloadQueue and
\* every one of them has completed, exactly one _execute_task was created
\* for each task and each task with a callback received exactly one
\* terminal event.
C15_EachTaskOnce ==
    (/\ Len(dtasks) > max_concurrent
     /\ \A t \in TaskIds : dtasks[t].status = "completed")
        => \A t \in TaskIds :
              /\ dtasks[t].executions = 1
              /\ dtasks[t].terminal_events = (IF dtasks[t].callback THEN 1 ELSE 0)

\* MaxTasks tasks with callbacks, two at a time, all completed
C15_Witness ==
    /\ Len(dtasks) = MaxTasks
    /\ max_concurrent = 2
    /\ \A t \in TaskIds :
          /\ dtasks[t].callback
          /\ dtasks[t].status = "completed"
          /\ dtasks[t].terminal_events = 1

\* C16: after a failed attempt of verify_and_retry_download, before the
\* next attempt starts and when the failure is raised, no file named after
\* the stem of that attempt is left, whatever its extension.
C16_PartialArtifactsRemoved ==
    (/\ adapter = "base"
     /\ \/ pc \in {"backoff", "raised"}
        \/ pc = "attempt" /\ attempt > 0)
        => \A n \in Names : ~Exists(fs, n)

\* C17: every engine call of a download writes to an output stem that no
\* earlier engine call of it used.
C17_FreshStemPerAttempt ==
    \A i, j \in 1..Len(stems) : i # j => stems[i] # stems[j]

\* the candidates that exist are all empty, and there is one
OnlyEmptyCandidates ==
    /\ \E c \in Candidates : cookie_files[c].exists
    /\ \A c \in Candidates : cookie_files[c].exists => cookie_files[c].size = 0

\* C18: a cookie file of size 0 is never selected, and when the only
\* candidates are empty files the config list has the categories of the list
\* built with no cookie file at all and no config carries a cookiefile; the
\* Twitter lookup gives for an empty file what it gives for no file.
C18_EmptyCookieNeverSelected ==
    /\ (cfg_pc # "start" /\ cookie_path # "None") => cookie_files[cookie_path].size > 0
    /\ (cfg_pc = "built" /\ OnlyEmptyCandidates) =>
          /\ \A ua1, ua2 \in UserAgents :
                Categories(configs) = Categories(get_ydl_configs("None", for_info, ua1, ua2))
          /\ \A i \in 1..Len(configs) : configs[i].cookiefile = "None"
    /\ \A sz \in {0} :
          LET empty == [exists |-> TRUE, size |-> sz, age |-> 24]
          IN  get_cookie_file(empty) = get_cookie_file(NoCookieFile)

C18_Witness ==
    /\ cfg_pc = "built"
    /\ OnlyEmptyCandidates
    /\ \A c \in Candidates : cookie_files[c].exists
    /\ Len(configs) = 3

\* the configs of a list without their user agents
Kinds(cs) ==
    [i \in 1..Len(cs) |-> [format |-> cs[i].format, sleep_interval |-> cs[i].sleep_interval,
                          skip_download |-> cs[i].skip_download]]

\* C19: with a cookie file, every cookie config comes before every
\* anonymous config in the list of _get_ydl_configs, whatever for_info and
\* the user agents drawn; without one the list is the anonymous configs
\* alone; the anonymous configs are the same, in the same order, in both.
C19_CookieConfigsFirst ==
    cfg_pc = "built" =>
        /\ \A i, j \in 1..Len(configs) :
              (Category(configs[i]) = "cookie" /\ Category(configs[j]) = "anonymous") => i < j
        /\ cookie_path # "None" => \E i \in 1..Len(configs) : Category(configs[i]) = "cookie"
        /\ cookie_path = "None" => \A i \in 1..Len(configs) : Category(configs[i]) = "anonymous"
        /\ \A ua1, ua2 \in UserAgents :
              Kinds(SelectSeq(configs, LAMBDA cfg : Category(cfg) = "anonymous"))
                  = Kinds(get_ydl_configs("None", for_info, ua1, ua2))

C19_Witness ==
    /\ cfg_pc = "built"
    /\ cookie_path # "None"
    /\ for_info
    /\ Len(configs) = 5
    /\ configs[3].user_agent # configs[4].user_agent

\* C20: a cancel request by a user who is not the job's owner returns False
\* and leaves the job's status, the queue and the set of in-flight tasks as
\* they were, in DownloadScheduler.cancel_download and in
\* DownloadQueue.cancel_task, whatever the status of the job.
C20_CancelRequiresOwnership ==
    [][/\ \A q \in QueueIds, u \in Users :
            (rows[q].user # u /\ cancel_download(q, u)) =>
                /\ cancel_result' = FALSE
                /\ UNCHANGED <<rows, tasks, current_downloads>>
       /\ \A t \in TaskIds, u \in Users :
            (dtasks[t].user_id # u /\ cancel_task(t, u)) =>
                /\ cancel_task_result' = FALSE
                /\ UNCHANGED <<dtasks, queue, active, completed>>]_vars

\* the owner's cancel requests were granted, the last request on a job of
\* the scheduler and the last on a task of the queue were refused, with a
\* job still in flight and a task still queued
C20_Witness ==
    /\ Len(rows) = CancelJobs
    /\ \E q \in QueueIds : rows[q].error_message = "Cancelled by user"
    /\ \E q \in QueueIds : rows[q].status = "processing" /\ q \in current_downloads
    /\ cancel_result = FALSE
    /\ Len(dtasks) = CancelJobs
    /\ \E t \in TaskIds : dtasks[t].status = "cancelled"
    /\ \E t \in TaskIds : dtasks[t].status = "pending" /\ \E i \in 1..Len(queue) : queue[i] = t
    /\ cancel_task_result = FALSE

\* a row cancelled before the scheduler promoted it
CancelledUnstarted(q) ==
    /\ rows[q].status = "failed"
    /\ rows[q].error_message = "Cancelled by user"
    /\ tasks[q] = "none"

\* C21: a job cancelled while still queued is never started.  A granted
\* cancel of a queued row leaves it failed with no _process_download task,
\* and no later step promotes such a row or creates a task for it; a granted
\* cancel_task takes the task out of the queue, and no later step puts a
\* cancelled task among the active ones or runs _execute_task for it.
C21_CancelledNeverStarted ==
    [][/\ \A q \in QueueIds, u \in Users :
            (rows[q].status = "queued" /\ cancel_download(q, u) /\ cancel_result') =>
                /\ rows'[q].status = "failed"
                /\ rows'[q].error_message = "Cancelled by user"
                /\ tasks'[q] = "none"
                /\ q \notin current_downloads'
       /\ \A q \in QueueIds :
            CancelledUnstarted(q) =>
                /\ rows'[q].status = "failed"
                /\ tasks'[q] = "none"
                /\ q \notin current_downloads'
       /\ \A t \in TaskIds, u \in Users :
            (cancel_task(t, u) /\ cancel_task_result') =>
                /\ dtasks'[t].status = "cancelled"
                /\ dtasks'[t].executions = 0
                /\ \A i \in 1..Len(queue') : queue'[i] # t
       /\ \A t \in TaskIds :
            dtasks[t].status = "cancelled" =>
                /\ dtasks'[t].status = "cancelled"
                /\ dtasks'[t].executions = 0
                /\ dtasks'[t].run = "none"
                /\ t \notin active'
                /\ \A i \in 1..Len(queue') : queue'[i] # t]_vars

\* a row and a task cancelled before their start, and a row and a task
\* submitted after them that the scheduler and the queue have run to the end
C21_Witness ==
    /\ is_running
    /\ \E q, r \in QueueIds :
          /\ q < r
          /\ CancelledUnstarted(q)
          /\ rows[r].status = "completed"
    /\ \E t, s \in TaskIds :
          /\ t < s
          /\ dtasks[t].status = "cancelled"
          /\ dtasks[t].executions = 0
          /\ dtasks[s].status = "completed"

\* C22: a trim failure is fatal for the job.  Once the trim step has raised
\* for a request with a trim range, download() does not return a file, and
\* a request with a trim range is never answered with the untrimmed file.
C22_TrimFailureFatal ==
    /\ (TrimRequested /\ trim_failures > 0) => dl_pc # "returned"
    /\ (TrimRequested /\ dl_pc = "returned") => dl_result = "trimmed"

\* C23: a failure of the compatibility step is not fatal.  Whichever step of
\* _ensure_quicktime_compat fails, the path it returns is the file it was
\* given, and that file is still on disk with the size it had.
C23_CompatFailureKeepsOriginal ==
    [][(pc = "final" /\ pc' = "returned" /\ compat_step' \in FailedSteps) =>
          /\ result' = current
          /\ Exists(fs', current)
          /\ fs'[current] = fs[current]]_vars

C25_ControlLoopNeverBlocked ==
    (is_running /\ FetchInProgress) => ENABLED control_loop_step

\* C26: every task add_download has put in the queue reaches a terminal
\* status in the end, on a fair event loop with downloads that end; also a
\* task added while the processor waits on its event with nothing to do.
C26_EveryTaskFinishes ==
    \A t \in 1..MaxTasks :
        (Len(dtasks) >= t) ~> (Len(dtasks) >= t /\ dtasks[t].status \in Finished)

\* C27: within one job the configs are tried one at a time in list order.
\* The engine calls made so far are those of configs 1, 2, ... in this
\* order, a config is tried only after every config before it has failed, at
\* most one tried config has not failed (the one in flight, or the one that
\* succeeded), and when download() returns the config that succeeded is the
\* last one tried.
C27_ConfigsSequential ==
    /\ \A i \in 1..Len(attempted) : attempted[i] = i
    /\ \A i \in 1..Len(attempted) : \A j \in 1..(i - 1) : j \in failed_configs
    /\ Cardinality({i \in 1..Len(attempted) : attempted[i] \notin failed_configs}) <= 1
    /\ dl_pc = "returned" =>
          /\ Len(attempted) = config
          /\ config \notin failed_configs
          /\ config <= config_count

\* the third of five configs of a YouTube download has succeeded after the
\* first two failed
C27_Witness ==
    /\ dl_platform = "youtube"
    /\ config_count = NumConfigs + 2
    /\ dl_pc = "returned"
    /\ attempted = <<1, 2, 3>>
    /\ failed_configs = {1, 2}

\* C28: a job becomes failed only when every config of its download has
\* been tried and has failed; the failure of one attempt alone does not make
\* the job failed.
C28_FailedOnlyWhenExhausted ==
    \A q \in QueueIds :
        rows[q].status = "failed" =>
            /\ Len(attempted) = config_count
            /\ failed_configs = 1..config_count

\* C29: once DownloadScheduler.stop() has returned, no queue row is left
\* with status "processing": every promoted job has reached "completed" or
\* "failed".
C29_NoProcessingAfterStop ==
    stop_pc = "returned" =>
        \A q \in QueueIds : rows[q].status # "processing"

\* the rows for which the step creates a _process_download task
Promoted == {q \in 1..MaxJobs : task_count'[q] > task_count[q]}

\* C30: promotions are serialized.  No queue row ever gets a second
\* _process_download task, and the promotions of one scheduler loop
\* iteration fit into the slots that were free when it began, each promoted
\* row taking its own entry of current_downloads, however the iterations
\* interleave with schedule_download, cancel_download and job completions.
C30_PromotionsSerialized ==
    [][ /\ \A q \in 1..MaxJobs : task_count'[q] <= 1
        /\ Promoted # {} =>
             /\ Promoted \subseteq Queued
             /\ \A q \in Promoted : tasks[q] = "none" /\ rows'[q].status = "processing"
             /\ Promoted \cap current_downloads = {}
             /\ Promoted \subseteq current_downloads'
             /\ Cardinality(Promoted) <=
                  max_concurrent_downloads - Cardinality(current_downloads)
             /\ Cardinality(current_downloads') <= max_concurrent_downloads
      ]_vars

\* two rows promoted by different iterations, the second one into the slot
\* a cancel_download freed
C30_Witness ==
    /\ Len(rows) >= 2
    /\ max_concurrent_downloads = 1
    /\ task_count[1] = 1
    /\ task_count[2] = 1
    /\ rows[1].error_message = "Cancelled by user"
    /\ rows[2].status = "processing"
    /\ current_downloads = {2}

\* the tasks whose status is PREPARING or DOWNLOADING
InProcessingStatus == {t \in TaskIds : dtasks[t].status \in {"preparing", "downloading"}}

\* C31: in DownloadQueue the active dict never holds more than
\* max_concurrent tasks, so at most max_concurrent tasks are PREPARING or
\* DOWNLOADING at once, whatever number of add_download calls were made.
C31_ActiveBounded ==
    /\ Cardinality(active) <= max_concurrent
    /\ InProcessingStatus \subseteq active
    /\ Cardinality(InProcessingStatus) <= max_concurrent

\* the limit is reached while a further pending task waits in the queue
C31_Witness ==
    /\ Cardinality(InProcessingStatus) = max_concurrent
    /\ Cardinality(active) = max_concurrent
    /\ max_concurrent < Len(dtasks)
    /\ \E i \in 1..Len(queue) : dtasks[queue[i]].status = "pending"
    /\ processor = "sleeping"

\* the status changes DownloadTask may make
StatusSteps ==
    {<<"pending", "preparing">>, <<"preparing", "downloading">>,
     <<"downloading", "completed">>,
     <<"pending", "failed">>, <<"preparing", "failed">>,
     <<"downloading", "failed">>,
     <<"pending", "cancelled">>}

\* C32: a DownloadQueue task changes status only along PENDING -> PREPARING
\* -> DOWNLOADING -> COMPLETED, PENDING/PREPARING/DOWNLOADING -> FAILED and
\* PENDING -> CANCELLED; a finished task never changes again; and
\* cancel_task on a task that is active or finished returns False and
\* changes nothing.
C32_StatusTransitions ==
    [][ /\ \A t \in TaskIds :
             dtasks'[t].status # dtasks[t].status =>
                 <<dtasks[t].status, dtasks'[t].status>> \in StatusSteps
        /\ \A t \in TaskIds :
             dtasks[t].status \in Finished => dtasks'[t].status = dtasks[t].status
        /\ \A t \in TaskIds, u \in Users :
             (cancel_task(t, u) /\ (t \in active \/ dtasks[t].status \in Finished)) =>
                 /\ ~cancel_task_result'
                 /\ UNCHANGED <<dtasks, queue, active, completed>>
      ]_vars

\* one task went all the way to COMPLETED, one was cancelled while queued,
\* one is downloading
C32_Witness ==
    /\ \E t \in TaskIds : dtasks[t].status = "completed" /\ dtasks[t].executions = 1
    /\ \E t \in TaskIds : dtasks[t].status = "cancelled" /\ t \in completed
    /\ \E t \in TaskIds : dtasks[t].status = "downloading" /\ t \in active
    /\ ~cancel_task_result

\* C33: a progress event of one interactive download is delivered to the
\* observer of that download and to nobody else, also while another user's
\* download runs on the same platform, and as long as the download lasts.
C33_ProgressIsolated ==
    \A e \in delivered : e[2] = e[1]

\* the containers of DownloadQueue that hold task t
Holders(t) ==
    {c \in {"queue", "active", "completed"} :
        \/ c = "queue" /\ InQueue(t)
        \/ c = "active" /\ t \in active
        \/ c = "completed" /\ t \in completed}

\* C34: every task that was added (none is pruned below HistoryLimit
\* finished tasks) is held by exactly one of queue, active and completed,
\* and the queue holds it once.
C34_ExactlyOneContainer ==
    /\ \A t \in TaskIds : Cardinality(Holders(t)) = 1
    /\ \A i, j \in 1..Len(queue) : queue[i] = queue[j] => i = j

\* a task promoted and reaped, a task cancelled in the queue and a task
\* still queued
C34_Witness ==
    /\ \E t \in completed : dtasks[t].status = "completed"
    /\ \E t \in completed : dtasks[t].status = "cancelled"
    /\ \E t \in TaskIds : InQueue(t)
    /\ active = {}

\* C35: after any sequence of start() and stop() calls at most one
\* _scheduler_loop coroutine and at most one _cleanup_task coroutine are
\* alive.
C35_SingleControlLoop ==
    scheduler_loops <= 1 /\ cleanup_tasks <= 1

\* the rows that are finished and whose completed_at lies more than
\* DaysOld days back
OldTerminal ==
    {q \in QueueIds : /\ rows[q].status \in {"completed", "failed"}
                      /\ rows[q].completed_at # NoTime
                      /\ now - rows[q].completed_at > DaysOld}

\* C36: once cleanup_completed_queue has run, the rows deleted are exactly
\* the completed or failed rows whose completed_at is older than the
\* cutoff; no queued or processing row is ever deleted, however old.
C36_PruneOnlyOldTerminal ==
    /\ \A q \in deleted : rows[q].status \notin {"queued", "processing"}
    /\ last_cleanup # NoTime => deleted = OldTerminal

\* a cleanup that deleted an old finished row and kept an equally old row
\* that is still in progress
C36_Witness ==
    /\ last_cleanup # NoTime
    /\ deleted # {}
    /\ \E q \in QueueIds \ deleted :
          rows[q].status = "processing" /\ now - rows[q].created_at > DaysOld

\* candidate c exists, has more than 100 bytes and is at most 30 days old
Eligible(c) ==
    /\ cookie_files[c].exists
    /\ cookie_files[c].size > 100
    /\ cookie_files[c].age <= 24 * 30

\* candidate c is eligible and at most 48 hours old
EligibleFresh(c) == Eligible(c) /\ cookie_files[c].age <= 48

\* C37: the cookie file _locate_cookie_file returns is never older than 30
\* days nor of 100 bytes or less; it is a stale one (older than 48 hours)
\* only when no fresh one exists; and no other file of the pool it was
\* taken from was modified more recently.  With an eligible file present a
\* file is returned.
C37_FreshBeforeStale ==
    cfg_pc # "start" =>
        /\ cookie_path # "None" =>
              /\ Eligible(cookie_path)
              /\ ~EligibleFresh(cookie_path) => \A c \in Candidates : ~EligibleFresh(c)
              /\ \A c \in Candidates :
                    (Eligible(c) /\ (EligibleFresh(c) <=> EligibleFresh(cookie_path))) =>
                        cookie_files[cookie_path].age <= cookie_files[c].age
        /\ cookie_path = "None" => \A c \in Candidates : ~Eligible(c)

\* the younger of two stale files is returned although a fresh file of 100
\* bytes exists
C37_Witness ==
    /\ cfg_pc # "start"
    /\ cookie_path # "None"
    /\ cookie_files[cookie_path].age = 49
    /\ \E c \in Candidates : Eligible(c) /\ cookie_files[c].age = 720
    /\ \E c \in Candidates :
          cookie_files[c].exists /\ cookie_files[c].age <= 48 /\ cookie_files[c].size = 100

\* C38: in verify_and_retry_download the wait after the failed attempt
\* number i (counted from 1) is 5*i seconds, whichever way the attempt
\* failed, so the waits grow with the attempt index; and no wait follows the
\* last attempt.
C38_ProgressiveBackoff ==
    adapter = "base" =>
        /\ \A i \in 1..Len(waits) : waits[i] = 5 * i
        /\ \A i \in 1..(Len(waits) - 1) : waits[i] < waits[i + 1]
        /\ Len(waits) = IF attempt < max_retries THEN attempt ELSE max_retries - 1
        /\ (pc = "backoff") => (attempt < max_retries)

\* three attempts failed: two waits were made, none after the third
C38_Witness ==
    /\ adapter = "base"
    /\ max_retries = 3
    /\ pc = "raised"
    /\ fetch_calls = 3
    /\ waits = <<5, 10>>

\* C39: DownloadQueue.completed never holds more than HistoryLimit (100)
\* tasks, whether a task enters it by finishing, by failing or by
\* cancel_task.
C39_HistoryBounded ==
    Cardinality(completed) <= HistoryLimit

=============================================================================
